---- MODULE Spec2Model ----
(***************************************************************************)
(* Model of the varsity OpenAPI validator: the reference finder, the       *)
(* reference resolver, the fragment classifier, the partial validator, the *)
(* whole-document validator, the recursive orchestrator and the batch      *)
(* entry points.                                                           *)
(*                                                                         *)
(* Strings are sequences of atoms (TLA+ strings used as indivisible        *)
(* tokens), so that startsWith, substring, split and template              *)
(* concatenation are computed, not tabulated: "3.0.3" is                   *)
(* <<"3", ".", "0", ".", "3">> and "#/a/b" is <<"#", "/", "a", "/", "b">>. *)
(* The empty string is <<>>.                                               *)
(*                                                                         *)
(* JSON values are records [t, s, kv]: t is the JavaScript type tag,       *)
(* s the scalar's text, kv the ordered list of <<key, value>> entries of   *)
(* an object or array (Object.entries order).                              *)
(***************************************************************************)
EXTENDS Integers, Sequences, FiniteSets, TLC

\* ------------------------------------------------------------------ bounds

\* Longest list of violations the schema evaluator reports for one document.
MaxViolations == 1

\* Longest list of sources handed to a batch call.
MaxSources == 2

\* Most keys of a fragment handed to detectPartialType.
MaxKeys == 3

\* ----------------------------------------------------------------- strings

startsWith(s, p) == Len(s) >= Len(p) /\ SubSeq(s, 1, Len(p)) = p

substring(s, n) == SubSeq(s, n + 1, Len(s))

\* s.split(sep) for a one-atom separator: the list of the pieces between
\* separators (one piece more than there are separators).
RECURSIVE splitFrom(_, _, _, _)
splitFrom(s, sep, k, cur) ==
  IF k > Len(s) THEN <<cur>>
  ELSE IF s[k] = sep THEN <<cur>> \o splitFrom(s, sep, k + 1, <<>>)
  ELSE splitFrom(s, sep, k + 1, Append(cur, s[k]))

split(s, sep) == splitFrom(s, sep, 1, <<>>)

RECURSIVE Flatten(_)
Flatten(ss) == IF ss = <<>> THEN <<>> ELSE Head(ss) \o Flatten(Tail(ss))

\* -------------------------------------------------------------- JSON values

JStr(s) == [t |-> "str", s |-> s, kv |-> <<>>]
JNum(n) == [t |-> "num", s |-> <<n>>, kv |-> <<>>]
JNull == [t |-> "null", s |-> <<>>, kv |-> <<>>]
JObj(kv) == [t |-> "obj", s |-> <<>>, kv |-> kv]
JArr(kv) == [t |-> "arr", s |-> <<>>, kv |-> kv]
Undefined == [t |-> "undef", s |-> <<>>, kv |-> <<>>]

\* typeof v === "object": objects, arrays and null.
TypeofObject(v) == v.t \in {"obj", "arr", "null"}

\* Mutant of Truthy: every value that is not undefined counts.
TruthyDefined(v) == v.t # "undef"

\* JavaScript truthiness.
Truthy(v) ==
  CASE v.t = "str" -> v.s # <<>>
    [] v.t = "num" -> v.s # <<"0">>
    [] v.t = "bool" -> v.s = <<"true">>
    [] v.t \in {"obj", "arr"} -> TRUE
    [] OTHER -> FALSE

\* key in v, for an object or array v.
HasKey(v, key) == \E k \in 1..Len(v.kv) : v.kv[k][1] = key

\* v[key]: undefined for a missing key and for a scalar.
Get(v, key) ==
  IF v.t \in {"obj", "arr"} /\ HasKey(v, key)
  THEN v.kv[CHOOSE k \in 1..Len(v.kv) : v.kv[k][1] = key][2]
  ELSE Undefined

\* ------------------------------------------------------------------ versions

V20 == <<"2", ".", "0">>
V30 == <<"3", ".", "0">>
V31 == <<"3", ".", "1">>
V32 == <<"3", ".", "2">>
V303 == <<"3", ".", "0", ".", "3">>
V301 == <<"3", ".", "0", ".", "1">>
V310 == <<"3", ".", "1", ".", "0">>
V40 == <<"4", ".", "0">>

\* Mutant of normalizeVersion: only the exact bucket names are recognised.
normalizeVersionExact(version) == version

\* validator.ts normalizeVersion: 3.0.x, 3.1.x, 3.2.x collapse to their bucket.
normalizeVersion(version) ==
  IF startsWith(version, V30) THEN V30
  ELSE IF startsWith(version, V31) THEN V31
  ELSE IF startsWith(version, V32) THEN V32
  ELSE version

\* The whole-document schema registry: schemas.set(...) for four buckets.
schemas == {V20, V30, V31, V32}

\* The ten fragment kinds, and the four registered for Swagger 2.0.
FragmentKinds ==
  {"schema", "parameter", "response", "pathitem", "requestbody", "header",
   "example", "link", "callback", "securityscheme"}

FragmentKinds20 == {"schema", "parameter", "response", "pathitem"}

\* `${version}.${partialType}`
schemaKey(version, partialType) == version \o <<".">> \o <<partialType>>

\* The fragment-schema registry: partialSchemas.set("<bucket>.<kind>", ...).
partialSchemas ==
  {schemaKey(V20, k) : k \in FragmentKinds20}
    \cup {schemaKey(v, k) : v \in {V30, V31, V32}, k \in FragmentKinds}

\* parser.ts detectVersion: the document's own version string, unnormalised;
\* throws on an unsupported or missing version (and on a spec that is not an
\* object, or an openapi field that is not a string, by a TypeError).
detectVersion(spec) ==
  IF spec.t \in {"null", "undef"} THEN [threw |-> TRUE, version |-> <<>>]
  ELSE IF Truthy(Get(spec, "openapi")) THEN
    LET version == Get(spec, "openapi") IN
    IF version.t # "str" THEN [threw |-> TRUE, version |-> <<>>]
    ELSE IF startsWith(version.s, V30) \/ startsWith(version.s, V31)
              \/ startsWith(version.s, V32)
    THEN [threw |-> FALSE, version |-> version.s]
    ELSE [threw |-> TRUE, version |-> <<>>]
  ELSE IF Get(spec, "swagger") = JStr(V20) THEN [threw |-> FALSE, version |-> V20]
  ELSE [threw |-> TRUE, version |-> <<>>]

\* ref-resolver.ts detectDocumentVersion: the bucket of a loaded document, or
\* null (here <<>>); throws a TypeError on null content or a non-string openapi.
detectDocumentVersion(doc) ==
  IF doc.t \in {"null", "undef"} THEN [threw |-> TRUE, version |-> <<>>]
  ELSE IF Truthy(Get(doc, "openapi")) /\ Get(doc, "openapi").t # "str"
  THEN [threw |-> TRUE, version |-> <<>>]
  ELSE IF Truthy(Get(doc, "openapi")) /\ startsWith(Get(doc, "openapi").s, V30)
  THEN [threw |-> FALSE, version |-> V30]
  ELSE IF Truthy(Get(doc, "openapi")) /\ startsWith(Get(doc, "openapi").s, V31)
  THEN [threw |-> FALSE, version |-> V31]
  ELSE IF Truthy(Get(doc, "openapi")) /\ startsWith(Get(doc, "openapi").s, V32)
  THEN [threw |-> FALSE, version |-> V32]
  ELSE IF Get(doc, "swagger") = JStr(V20) THEN [threw |-> FALSE, version |-> V20]
  ELSE [threw |-> FALSE, version |-> <<>>]

\* ------------------------------------------------------- reference finder

\* A key as the characters a template literal writes: the empty key writes
\* none.
keyString(key) == IF key = "" THEN <<>> ELSE <<key>>

\* ref-resolver.ts findReferences: every string-valued "$ref" key, depth
\* first, in key order, with its dot-joined path.
RECURSIVE findReferences(_, _)
findReferences(obj, path) ==
  IF obj.t \in {"obj", "arr"} THEN
    LET key(k) == obj.kv[k][1]
        value(k) == obj.kv[k][2]
        currentPath(k) ==
          IF path # <<>> THEN path \o <<".">> \o keyString(key(k))
          ELSE keyString(key(k))
        entry(k) ==
          IF key(k) = "$ref" /\ value(k).t = "str"
          THEN <<[path |-> currentPath(k), value |-> value(k).s]>>
          ELSE IF TypeofObject(value(k))
          THEN findReferences(value(k), currentPath(k))
          ELSE <<>>
    IN Flatten([k \in 1..Len(obj.kv) |-> entry(k)])
  ELSE <<>>

\* The walk of an in-document pointer "#/a/b": each segment must be a key of
\* the current object. found = FALSE is the "Reference not found" failure.
RECURSIVE walkSegments(_, _)
walkSegments(current, pathSegments) ==
  IF pathSegments = <<>> THEN [found |-> TRUE, content |-> current]
  ELSE
    LET segment == Head(pathSegments) IN
    IF current.t \in {"obj", "arr"} /\ Len(segment) = 1 /\ HasKey(current, segment[1])
    THEN walkSegments(Get(current, segment[1]), Tail(pathSegments))
    ELSE [found |-> FALSE, content |-> Undefined]

\* ----------------------------------------------------- the schema evaluator

\* The keywords the evaluator may report a violation under.
Keywords == {"required", "type", "format"}

\* One violation as ajv reports it. Its schemaPath ends with its keyword.
Violation(keyword, instancePath) ==
  [instancePath |-> instancePath,
   schemaPath |-> <<"#", "/", keyword>>,
   keyword |-> keyword,
   message |-> <<"must satisfy ", keyword>>]

Violations ==
  {Violation("required", <<>>), Violation("type", <<"/", "info">>),
   Violation("format", <<"/", "info", "/", "version">>)}

\* Every list of violations the evaluator may return (validate.errors); the
\* empty list is the outcome valid = true.
ViolationLists == UNION {[1..n -> Violations] : n \in 0..MaxViolations}

\* One evaluation: a compiled schema, named by its registry key, run on a
\* document.
Request(key, doc) == [schema |-> key, doc |-> doc]

\* The ValidationError built from one violation.
validationError(error) ==
  [path |-> IF error.instancePath # <<>> THEN error.instancePath
            ELSE IF error.schemaPath # <<>> THEN error.schemaPath
            ELSE <<"/">>,
   message |-> IF error.message # <<>> THEN error.message
               ELSE <<"Validation error">>,
   schemaPath |-> error.schemaPath]

\* A ValidationError built by the library itself (no schemaPath).
Problem(path, message) == [path |-> path, message |-> message, schemaPath |-> <<>>]

\* Mutant of isErrorKeyword: only `required` is an error.
isErrorKeywordRequiredOnly(keyword) == keyword = "required"

\* The severity rule of both validators:
\* error.keyword === "required" || error.keyword === "type".
isErrorKeyword(keyword) == keyword = "required" \/ keyword = "type"

IsSchemaError(error) == isErrorKeyword(error.keyword)
IsSchemaWarning(error) == ~isErrorKeyword(error.keyword)

\* The loop over validate.errors: each violation goes to errors or warnings.
schemaErrors(ajvErrors) ==
  [k \in 1..Len(SelectSeq(ajvErrors, IsSchemaError)) |->
     validationError(SelectSeq(ajvErrors, IsSchemaError)[k])]

schemaWarnings(ajvErrors) ==
  [k \in 1..Len(SelectSeq(ajvErrors, IsSchemaWarning)) |->
     validationError(SelectSeq(ajvErrors, IsSchemaWarning)[k])]

\* ---------------------------------------------------- fragment classifier

\* Mutant of detectPartialType: the parameter rule is tried before the schema
\* rule and the example rule before the response rule.
detectPartialTypeReordered(doc, version) ==
  LET T(key) == Truthy(Get(doc, key)) IN
  IF doc.t \in {"null", "undef"} THEN [threw |-> TRUE, kind |-> "null"]
  ELSE IF T("name") /\ (T("in") \/ T("parameter"))
  THEN [threw |-> FALSE, kind |-> "parameter"]
  ELSE IF T("type") \/ T("properties") \/ T("items") \/ T("allOf") \/ T("oneOf")
            \/ T("anyOf")
  THEN [threw |-> FALSE, kind |-> "schema"]
  ELSE IF T("summary") \/ T("description") \/ Get(doc, "value").t # "undef"
  THEN [threw |-> FALSE, kind |-> "example"]
  ELSE IF T("description") /\ (T("content") \/ T("schema") \/ T("headers"))
  THEN [threw |-> FALSE, kind |-> "response"]
  ELSE IF T("get") \/ T("post") \/ T("put") \/ T("delete") \/ T("patch")
            \/ T("head") \/ T("options")
  THEN [threw |-> FALSE, kind |-> "pathitem"]
  ELSE IF T("content") /\ ~T("description")
  THEN [threw |-> FALSE, kind |-> "requestbody"]
  ELSE IF T("schema") /\ ~T("name")
  THEN [threw |-> FALSE, kind |-> "header"]
  ELSE IF T("operationRef") \/ T("operationId")
  THEN [threw |-> FALSE, kind |-> "link"]
  ELSE IF T("expression") /\ Get(doc, "expression").t = "str"
  THEN [threw |-> FALSE, kind |-> "callback"]
  ELSE IF T("type") /\ (T("flows") \/ T("openIdConnectUrl") \/ T("scheme"))
  THEN [threw |-> FALSE, kind |-> "securityscheme"]
  ELSE [threw |-> FALSE, kind |-> "null"]

\* Mutant of detectPartialType: the security scheme rule is tried first.
detectPartialTypeSecurityFirst(doc, version) ==
  LET T(key) == Truthy(Get(doc, key)) IN
  IF doc.t \in {"null", "undef"} THEN [threw |-> TRUE, kind |-> "null"]
  ELSE IF T("type") /\ (T("flows") \/ T("openIdConnectUrl") \/ T("scheme"))
  THEN [threw |-> FALSE, kind |-> "securityscheme"]
  ELSE IF T("type") \/ T("properties") \/ T("items") \/ T("allOf") \/ T("oneOf")
            \/ T("anyOf")
  THEN [threw |-> FALSE, kind |-> "schema"]
  ELSE IF T("name") /\ (T("in") \/ T("parameter"))
  THEN [threw |-> FALSE, kind |-> "parameter"]
  ELSE IF T("description") /\ (T("content") \/ T("schema") \/ T("headers"))
  THEN [threw |-> FALSE, kind |-> "response"]
  ELSE IF T("get") \/ T("post") \/ T("put") \/ T("delete") \/ T("patch")
            \/ T("head") \/ T("options")
  THEN [threw |-> FALSE, kind |-> "pathitem"]
  ELSE IF T("content") /\ ~T("description")
  THEN [threw |-> FALSE, kind |-> "requestbody"]
  ELSE IF T("schema") /\ ~T("name")
  THEN [threw |-> FALSE, kind |-> "header"]
  ELSE IF T("summary") \/ T("description") \/ Get(doc, "value").t # "undef"
  THEN [threw |-> FALSE, kind |-> "example"]
  ELSE IF T("operationRef") \/ T("operationId")
  THEN [threw |-> FALSE, kind |-> "link"]
  ELSE IF T("expression") /\ Get(doc, "expression").t = "str"
  THEN [threw |-> FALSE, kind |-> "callback"]
  ELSE [threw |-> FALSE, kind |-> "null"]

\* partial-validator.ts detectPartialType: the first matching shape rule, or
\* null (kind = "null"); a null or undefined fragment throws a TypeError.
detectPartialType(doc, version) ==
  LET T(key) == Truthy(Get(doc, key)) IN
  IF doc.t \in {"null", "undef"} THEN [threw |-> TRUE, kind |-> "null"]
  ELSE IF T("type") \/ T("properties") \/ T("items") \/ T("allOf") \/ T("oneOf")
            \/ T("anyOf")
  THEN [threw |-> FALSE, kind |-> "schema"]
  ELSE IF T("name") /\ (T("in") \/ T("parameter"))
  THEN [threw |-> FALSE, kind |-> "parameter"]
  ELSE IF T("description") /\ (T("content") \/ T("schema") \/ T("headers"))
  THEN [threw |-> FALSE, kind |-> "response"]
  ELSE IF T("get") \/ T("post") \/ T("put") \/ T("delete") \/ T("patch")
            \/ T("head") \/ T("options")
  THEN [threw |-> FALSE, kind |-> "pathitem"]
  ELSE IF T("content") /\ ~T("description")
  THEN [threw |-> FALSE, kind |-> "requestbody"]
  ELSE IF T("schema") /\ ~T("name")
  THEN [threw |-> FALSE, kind |-> "header"]
  ELSE IF T("summary") \/ T("description") \/ Get(doc, "value").t # "undef"
  THEN [threw |-> FALSE, kind |-> "example"]
  ELSE IF T("operationRef") \/ T("operationId")
  THEN [threw |-> FALSE, kind |-> "link"]
  ELSE IF T("expression") /\ Get(doc, "expression").t = "str"
  THEN [threw |-> FALSE, kind |-> "callback"]
  ELSE IF T("type") /\ (T("flows") \/ T("openIdConnectUrl") \/ T("scheme"))
  THEN [threw |-> FALSE, kind |-> "securityscheme"]
  ELSE [threw |-> FALSE, kind |-> "null"]

\* ------------------------------------------------------- partial validator

\* A ValidationResult.
Result(valid, errors, warnings, spec, version) ==
  [valid |-> valid, errors |-> errors, warnings |-> warnings, spec |-> spec,
   version |-> version]

NoResult == Result(FALSE, <<>>, <<>>, Undefined, <<>>)

\* errors.forEach(error => error.path = `${documentPath}${error.path}`)
prefixPaths(errors, documentPath) ==
  [k \in 1..Len(errors) |->
     [errors[k] EXCEPT !.path = documentPath \o errors[k].path]]

\* The schema key validatePartialDocument looks its schema up under.
partialSchemaKey(version, partialType) == schemaKey(version, partialType)

\* The evaluation validatePartialDocument asks for, if it gets that far.
partialRequests(document, version) ==
  LET partialType == detectPartialType(document, version) IN
  IF partialType.threw \/ partialType.kind = "null" THEN {}
  ELSE IF partialSchemaKey(version, partialType.kind) \notin partialSchemas THEN {}
  ELSE {Request(partialSchemaKey(version, partialType.kind), document)}

\* Mutant of partialValid: a fragment with warnings is invalid too.
partialValidNoWarnings(errors, warnings) == Len(errors) = 0 /\ Len(warnings) = 0

\* valid: errors.length === 0
partialValid(errors, warnings) == Len(errors) = 0

\* partial-validator.ts validatePartialDocument. ajv maps each evaluation to
\* the violations the evaluator reports for it.
validatePartialDocument(document, version, documentPath, ajv) ==
  LET partialType == detectPartialType(document, version)
      key == partialSchemaKey(version, partialType.kind)
      ajvErrors == ajv[Request(key, document)]
      errors == schemaErrors(ajvErrors)
      warnings == schemaWarnings(ajvErrors)
      outErrors == IF documentPath # <<>> THEN prefixPaths(errors, documentPath)
                   ELSE errors
      outWarnings == IF documentPath # <<>> THEN prefixPaths(warnings, documentPath)
                     ELSE warnings
  IN
  IF partialType.threw THEN [threw |-> TRUE, result |-> NoResult]
  ELSE IF partialType.kind = "null" THEN
    [threw |-> FALSE,
     result |-> Result(FALSE,
                       <<Problem(<<"/">>, <<"Unable to determine document type">>)>>,
                       <<>>, document, version)]
  ELSE IF key \notin partialSchemas THEN
    [threw |-> FALSE,
     result |-> Result(FALSE,
                       <<Problem(<<"/">>,
                                 <<"No validation schema available for ",
                                   partialType.kind, " in OpenAPI ">> \o version)>>,
                       <<>>, document, version)]
  ELSE
    [threw |-> FALSE,
     result |-> Result(partialValid(outErrors, outWarnings), outErrors, outWarnings,
                       document, version)]

\* ------------------------------------------------ whole-document validator

\* Options as the callers build them. strict is "absent" (no such key),
\* "undefined", "true" or "false"; maxRefDepth 0 stands for an absent one
\* (options.maxRefDepth || 10 treats both alike).
Options(strict, validateReferences, recursive, maxRefDepth) ==
  [strict |-> strict, validateReferences |-> validateReferences,
   recursive |-> recursive, maxRefDepth |-> maxRefDepth]

\* v.length, where it is a number.
HasLength(v) == v.t \in {"arr", "str"}
Length(v) == IF v.t = "arr" THEN Len(v.kv) ELSE Len(v.s)

\* Mutant of performStrictValidation: missing servers are an error.
performStrictValidationServersError(spec, version) ==
  LET security == Get(spec, "security")
      securityUsed == Truthy(security) /\ HasLength(security) /\ Length(security) > 0
      servers == Get(spec, "servers")
      components == Get(spec, "components")
      securitySchemes ==
        IF components.t \in {"null", "undef"} THEN Undefined
        ELSE Get(components, "securitySchemes")
      structural ==
        IF version = V20
        THEN IF ~Truthy(Get(spec, "host"))
             THEN [errors |-> <<Problem(<<"/">>, <<"Either host or servers must be specified in Swagger 2.0">>)>>,
                   warnings |-> <<>>]
             ELSE [errors |-> <<>>, warnings |-> <<>>]
        ELSE IF ~Truthy(servers) \/ (HasLength(servers) /\ Length(servers) = 0)
             THEN [errors |-> <<Problem(<<"/">>, <<"No servers specified">>)>>,
                   warnings |-> <<>>]
             ELSE [errors |-> <<>>, warnings |-> <<>>]
      definitionsMissing ==
        IF version = V20 THEN ~Truthy(Get(spec, "securityDefinitions"))
        ELSE ~Truthy(securitySchemes)
      securityErrors ==
        IF securityUsed /\ definitionsMissing
        THEN <<Problem(<<"/">>, <<"Security schemes must be defined when using security">>)>>
        ELSE <<>>
  IN [errors |-> structural.errors \o securityErrors, warnings |-> structural.warnings]

\* Mutant of performStrictValidation: the security check is left out.
performStrictValidationNoSecurity(spec, version) ==
  LET security == Get(spec, "security")
      securityUsed == Truthy(security) /\ HasLength(security) /\ Length(security) > 0
      servers == Get(spec, "servers")
      components == Get(spec, "components")
      securitySchemes ==
        IF components.t \in {"null", "undef"} THEN Undefined
        ELSE Get(components, "securitySchemes")
      structural ==
        IF version = V20
        THEN IF ~Truthy(Get(spec, "host"))
             THEN [errors |-> <<Problem(<<"/">>, <<"Either host or servers must be specified in Swagger 2.0">>)>>,
                   warnings |-> <<>>]
             ELSE [errors |-> <<>>, warnings |-> <<>>]
        ELSE IF ~Truthy(servers) \/ (HasLength(servers) /\ Length(servers) = 0)
             THEN [errors |-> <<>>,
                   warnings |-> <<Problem(<<"/">>, <<"No servers specified">>)>>]
             ELSE [errors |-> <<>>, warnings |-> <<>>]
      definitionsMissing ==
        IF version = V20 THEN ~Truthy(Get(spec, "securityDefinitions"))
        ELSE ~Truthy(securitySchemes)
      securityErrors ==
        IF securityUsed /\ definitionsMissing
        THEN <<Problem(<<"/">>, <<"Security schemes must be defined when using security">>)>>
        ELSE <<>>
  IN [errors |-> structural.errors, warnings |-> structural.warnings]

\* validator.ts performStrictValidation: what it pushes to errors and warnings.
performStrictValidation(spec, version) ==
  LET security == Get(spec, "security")
      securityUsed == Truthy(security) /\ HasLength(security) /\ Length(security) > 0
      servers == Get(spec, "servers")
      components == Get(spec, "components")
      securitySchemes ==
        IF components.t \in {"null", "undef"} THEN Undefined
        ELSE Get(components, "securitySchemes")
      structural ==
        IF version = V20
        THEN IF ~Truthy(Get(spec, "host"))
             THEN [errors |-> <<Problem(<<"/">>, <<"Either host or servers must be specified in Swagger 2.0">>)>>,
                   warnings |-> <<>>]
             ELSE [errors |-> <<>>, warnings |-> <<>>]
        ELSE IF ~Truthy(servers) \/ (HasLength(servers) /\ Length(servers) = 0)
             THEN [errors |-> <<>>,
                   warnings |-> <<Problem(<<"/">>, <<"No servers specified">>)>>]
             ELSE [errors |-> <<>>, warnings |-> <<>>]
      definitionsMissing ==
        IF version = V20 THEN ~Truthy(Get(spec, "securityDefinitions"))
        ELSE ~Truthy(securitySchemes)
      securityErrors ==
        IF securityUsed /\ definitionsMissing
        THEN <<Problem(<<"/">>, <<"Security schemes must be defined when using security">>)>>
        ELSE <<>>
  IN [errors |-> structural.errors \o securityErrors, warnings |-> structural.warnings]

\* Mutant of validatorResolveReference: a reference outside the document is
\* taken to resolve.
validatorResolveReferenceExternalOk(spec, ref) ==
  IF startsWith(ref.value, <<"#", "/">>)
  THEN LET walk == walkSegments(spec, split(substring(ref.value, 2), "/"))
       IN walk.found /\ walk.content.t # "undef"
  ELSE TRUE

\* validator.ts resolveReference: whether a reference resolves inside the
\* document; nothing outside "#/" is looked at.
validatorResolveReference(spec, ref) ==
  IF startsWith(ref.value, <<"#", "/">>)
  THEN LET walk == walkSegments(spec, split(substring(ref.value, 2), "/"))
       IN walk.found /\ walk.content.t # "undef"
  ELSE FALSE

\* validator.ts validateReferences: one error per broken reference.
validateReferences(spec) ==
  LET refs == findReferences(spec, <<>>)
      broken(ref) == ~validatorResolveReference(spec, ref)
      brokenRefs == SelectSeq(refs, broken)
  IN [k \in 1..Len(brokenRefs) |->
        Problem(brokenRefs[k].path, <<"Broken reference: ">> \o brokenRefs[k].value)]

\* The registry key of the whole-document schema of a version.
specificationKey(version) == schemaKey(normalizeVersion(version), "specification")

\* The evaluation validateOpenAPISpec asks for, if its schema exists.
specRequests(spec, version) ==
  IF normalizeVersion(version) \in schemas
  THEN {Request(specificationKey(version), spec)}
  ELSE {}

\* Mutant of specValid: validity taken from the schema evaluator alone.
specValidSchemaOnly(errors, ajvErrors) == Len(ajvErrors) = 0

\* valid: errors.length === 0
specValid(errors, ajvErrors) == Len(errors) = 0

\* validator.ts validateOpenAPISpec. options.strict is truthy only as "true".
\* (validateExamples only counts and logs; it records nothing.)
validateOpenAPISpec(spec, version, options, ajv) ==
  LET ajvErrors == ajv[Request(specificationKey(version), spec)]
      strictRun == options.strict = "true"
      strict == performStrictValidation(spec, version)
      errors == schemaErrors(ajvErrors)
                  \o (IF strictRun THEN strict.errors ELSE <<>>)
                  \o (IF options.validateReferences THEN validateReferences(spec)
                      ELSE <<>>)
      warnings == schemaWarnings(ajvErrors)
                    \o (IF strictRun THEN strict.warnings ELSE <<>>)
  IN
  IF normalizeVersion(version) \notin schemas
  THEN [threw |-> TRUE, result |-> NoResult]
  ELSE IF strictRun /\ spec.t \in {"null", "undef"}
  THEN [threw |-> TRUE, result |-> NoResult]
  ELSE [threw |-> FALSE,
        result |-> Result(specValid(errors, ajvErrors), errors, warnings, spec,
                          version)]

\* ------------------------------------------------------ reference resolver

\* A ResolvedReference; version <<>> stands for an absent version.
Resolved(path, content, version, isCircular, depth) ==
  [path |-> path, content |-> content, version |-> version,
   isCircular |-> isCircular, depth |-> depth]

\* A ReferenceContext.
Context(basePath, visited, maxDepth, currentDepth, baseDocument) ==
  [basePath |-> basePath, visited |-> visited, maxDepth |-> maxDepth,
   currentDepth |-> currentDepth, baseDocument |-> baseDocument]

IsUrl(s) == startsWith(s, <<"http://">>) \/ startsWith(s, <<"https://">>)

\* What one step of resolveReference comes to: it returns a value, throws,
\* or is suspended on a fetch ("await"); visited is the set it leaves behind.
Outcome(kind, resolved, visited) ==
  [kind |-> kind, resolved |-> resolved, visited |-> visited]

NoResolved == Resolved(<<>>, Undefined, <<>>, FALSE, 0)

\* Mutant of isVisited: the circular check is skipped.
isVisitedNever(ref, visited) == FALSE

\* visited.has(ref)
isVisited(ref, visited) == ref \in visited

\* Mutant of depthExceeded: the limit is inclusive.
depthExceededStrict(currentDepth, maxDepth) == currentDepth > maxDepth

\* currentDepth >= maxDepth
depthExceeded(currentDepth, maxDepth) == currentDepth >= maxDepth

\* Mutant of visitedAdd: the reference is not entered.
visitedAddSkipped(visited, ref) == visited

\* visited.add(ref)
visitedAdd(visited, ref) == visited \cup {ref}

\* Mutant of visitedDelete: the finally block is missing.
visitedDeleteMissing(visited, ref) == visited

\* finally { visited.delete(ref) }
visitedDelete(visited, ref) == visited \ {ref}

\* ref-resolver.ts parseFile, then detectDocumentVersion: a local file
\* reference. file is the file-system entry of the resolved path.
resolveFile(ref, context, file) ==
  IF IsUrl(context.basePath) \/ ~file.exists \/ file.format # "json"
       \/ ~file.wellFormed
  THEN Outcome("throw", NoResolved, context.visited)
  ELSE IF detectDocumentVersion(file.doc).threw
  THEN Outcome("throw", NoResolved, context.visited)
  ELSE Outcome("return",
               Resolved(ref, file.doc, detectDocumentVersion(file.doc).version,
                        FALSE, context.currentDepth),
               context.visited)

\* ref-resolver.ts resolveReference up to its first suspension: the circular
\* check, the depth check, visited.add, the pointer walk or the file read, and
\* the finally block's visited.delete on the paths that end here.
resolveReference(ref, context, file) ==
  IF isVisited(ref, context.visited)
  THEN Outcome("return",
               Resolved(ref, JNull, <<>>, TRUE, context.currentDepth),
               context.visited)
  ELSE IF depthExceeded(context.currentDepth, context.maxDepth)
  THEN Outcome("throw", NoResolved, context.visited)
  ELSE IF IsUrl(ref)
  THEN Outcome("await", NoResolved, visitedAdd(context.visited, ref))
  ELSE IF startsWith(ref, <<"#", "/">>)
  THEN LET walk == walkSegments(context.baseDocument, split(substring(ref, 2), "/"))
       IN IF walk.found
          THEN Outcome("return",
                       Resolved(ref, walk.content, <<>>, FALSE, context.currentDepth),
                       visitedDelete(visitedAdd(context.visited, ref), ref))
          ELSE Outcome("throw", NoResolved,
                       visitedDelete(visitedAdd(context.visited, ref), ref))
  ELSE LET out == resolveFile(ref, context, file)
       IN Outcome(out.kind, out.resolved,
                  visitedDelete(visitedAdd(context.visited, ref), ref))

\* resolveReference after its fetch returns: response.ok, response.json(),
\* detectDocumentVersion, and the finally block.
resolveReferenceFetched(ref, context, response) ==
  IF ~response.ok \/ ~response.wellFormed \/ detectDocumentVersion(response.doc).threw
  THEN Outcome("throw", NoResolved, visitedDelete(context.visited, ref))
  ELSE Outcome("return",
               Resolved(ref, response.doc, detectDocumentVersion(response.doc).version,
                        FALSE, context.currentDepth),
               visitedDelete(context.visited, ref))

\* --------------------------------------------- documents, files, the network

RefSelf == <<"#", "/", "components", "/", "schemas", "/", "Self">>
RefParam == <<"#", "/", "components", "/", "parameters", "/", "P">>
RefMissing == <<"#", "/", "does", "/", "not", "/", "exist">>
RefNothing == <<"#", "/", "x-nothing">>
RefUrl == <<"http://", "h", "/", "frag.json">>
RefFile == <<"frag.json">>
RefNoFile == <<"nofile.json">>

Ref(value) == JObj(<< <<"$ref", JStr(value)>> >>)

Info == JObj(<< <<"title", JStr(<<"S">>)>>, <<"version", JStr(<<"1">>)>> >>)

\* A schema that refers to itself.
SelfSchema ==
  JObj(<< <<"type", JStr(<<"object">>)>>,
          <<"properties", JObj(<< <<"next", Ref(RefSelf)>> >>)>> >>)

ParamP == JObj(<< <<"name", JStr(<<"id">>)>>, <<"in", JStr(<<"query">>)>> >>)

\* openapi 3.0.3: the same reference value at two sites (one of them inside
\* its own target).
DocA ==
  JObj(<< <<"openapi", JStr(V303)>>,
          <<"info", Info>>,
          <<"paths", JObj(<< <<"/x", Ref(RefSelf)>> >>)>>,
          <<"components", JObj(<< <<"schemas", JObj(<< <<"Self", SelfSchema>> >>)>> >>)>> >>)

\* openapi 3.0: a reference used twice, a broken one, and one to a null.
DocB ==
  JObj(<< <<"openapi", JStr(V30)>>,
          <<"info", Info>>,
          <<"paths", JObj(<< <<"/p", Ref(RefParam)>>, <<"/m", Ref(RefMissing)>>,
                             <<"/q", Ref(RefParam)>>, <<"/n", Ref(RefNothing)>> >>)>>,
          <<"components", JObj(<< <<"parameters", JObj(<< <<"P", ParamP>> >>)>> >>)>>,
          <<"security", JArr(<< <<"0", JObj(<< <<"key", JArr(<<>>)>> >>)>> >>)>>,
          <<"x-nothing", JNull>> >>)

\* swagger 2.0 without host: a remote reference and two file references.
DocC ==
  JObj(<< <<"swagger", JStr(V20)>>,
          <<"info", Info>>,
          <<"paths", JObj(<< <<"/u", Ref(RefUrl)>>, <<"/g", Ref(RefNoFile)>>,
                             <<"/f", Ref(RefFile)>> >>)>> >>)

\* openapi 3.1.0 with a server and one reference, to its info object.
DocS ==
  JObj(<< <<"openapi", JStr(V310)>>,
          <<"info", Info>>,
          <<"servers", JArr(<< <<"0", JObj(<< <<"url", JStr(<<"http://", "h">>)>> >>)>> >>)>>,
          <<"paths", JObj(<< <<"/i", Ref(<<"#", "/", "info">>)>> >>)>> >>)

\* swagger 2.0 with a host, and security with its securityDefinitions.
DocH ==
  JObj(<< <<"swagger", JStr(V20)>>,
          <<"info", Info>>,
          <<"host", JStr(<<"h">>)>>,
          <<"paths", JObj(<<>>)>>,
          <<"security", JArr(<< <<"0", JObj(<< <<"key", JArr(<<>>)>> >>)>> >>)>>,
          <<"securityDefinitions",
            JObj(<< <<"key", JObj(<< <<"type", JStr(<<"apiKey">>)>> >>)>> >>)>> >>)

\* swagger 2.0 with a host, and security without securityDefinitions.
DocK ==
  JObj(<< <<"swagger", JStr(V20)>>,
          <<"info", Info>>,
          <<"host", JStr(<<"h">>)>>,
          <<"paths", JObj(<<>>)>>,
          <<"security", JArr(<< <<"0", JObj(<< <<"key", JArr(<<>>)>> >>)>> >>)>> >>)

\* openapi 3.0 with an empty servers list, and security whose requirement
\* names a scheme that components.securitySchemes does not define.
DocE ==
  JObj(<< <<"openapi", JStr(V30)>>,
          <<"info", Info>>,
          <<"servers", JArr(<<>>)>>,
          <<"paths", JObj(<<>>)>>,
          <<"security", JArr(<< <<"0", JObj(<< <<"key", JArr(<<>>)>> >>)>> >>)>>,
          <<"components",
            JObj(<< <<"securitySchemes",
                      JObj(<< <<"other", JObj(<< <<"type", JStr(<<"http">>)>> >>)>> >>)>> >>)>> >>)

\* An unsupported version.
DocV4 == JObj(<< <<"openapi", JStr(V40)>>, <<"info", Info>> >>)

\* Fragments found in files and on the network; the first one holds a
\* reference of its own.
FragResponse ==
  JObj(<< <<"description", JStr(<<"ok">>)>>,
          <<"schema", Ref(RefNoFile)>> >>)

FragString == JObj(<< <<"type", JStr(<<"string">>)>> >>)

\* A file-system entry.
File(exists, format, wellFormed, doc) ==
  [exists |-> exists, format |-> format, wellFormed |-> wellFormed, doc |-> doc]

NoFile == File(FALSE, "json", FALSE, Undefined)

SrcA == <<"a.json">>
SrcB == <<"b.json">>
SrcC == <<"c.json">>
SrcS == <<"s.json">>
SrcV4 == <<"v4.json">>
SrcBad == <<"bad.json">>
SrcMissing == <<"missing.json">>
SrcEmpty == <<>>

\* The files of the working directory; every other path does not exist.
Files(path) ==
  CASE path = SrcA -> File(TRUE, "json", TRUE, DocA)
    [] path = SrcB -> File(TRUE, "json", TRUE, DocB)
    [] path = SrcC -> File(TRUE, "json", TRUE, DocC)
    [] path = SrcS -> File(TRUE, "json", TRUE, DocS)
    [] path = SrcV4 -> File(TRUE, "json", TRUE, DocV4)
    [] path = SrcBad -> File(TRUE, "json", FALSE, Undefined)
    [] path = RefFile -> File(TRUE, "json", TRUE, FragResponse)
    [] OTHER -> NoFile

\* resolve(dirname(basePath), ref) and resolve(source): every file of the
\* model lives in the working directory.
resolvePath(ref) == ref

\* What a fetch may come back with.
Response(ok, wellFormed, doc) == [ok |-> ok, wellFormed |-> wellFormed, doc |-> doc]

Responses ==
  {Response(FALSE, FALSE, Undefined), Response(TRUE, TRUE, FragString),
   Response(TRUE, TRUE, DocS), Response(TRUE, TRUE, JNull)}

\* Mutant of parseOpenAPISpec: an undetectable version falls back to 3.0.
parseOpenAPISpecDefaultVersion(source) ==
  LET file == Files(resolvePath(source)) IN
  IF ~file.exists \/ ~file.wellFormed
  THEN [threw |-> TRUE, spec |-> Undefined, version |-> <<>>]
  ELSE [threw |-> FALSE,
        spec |-> file.doc,
        version |-> IF detectVersion(file.doc).threw THEN V30
                    ELSE detectVersion(file.doc).version]

\* parser.ts parseOpenAPISpec for a local file: read, parse, detectVersion.
parseOpenAPISpec(source) ==
  LET file == Files(resolvePath(source)) IN
  IF ~file.exists \/ ~file.wellFormed
  THEN [threw |-> TRUE, spec |-> Undefined, version |-> <<>>]
  ELSE [threw |-> detectVersion(file.doc).threw,
        spec |-> IF detectVersion(file.doc).threw THEN Undefined ELSE file.doc,
        version |-> detectVersion(file.doc).version]

\* ------------------------------------------------- recursive orchestrator

\* A RecursiveValidationResult.
RecursiveResult(valid, errors, warnings, spec, version, partialValidations, circularReferences, totalDocuments, validDocuments) ==
  [valid |-> valid, errors |-> errors, warnings |-> warnings, spec |-> spec,
   version |-> version, partialValidations |-> partialValidations,
   circularReferences |-> circularReferences, totalDocuments |-> totalDocuments,
   validDocuments |-> validDocuments]

\* An entry of partialValidations.
Partial(path, result, isCircular) ==
  [path |-> path, result |-> result, isCircular |-> isCircular]

\* options.maxRefDepth || 10
DefaultMaxRefDepth == 10
maxDepthOf(options) ==
  IF options.maxRefDepth = 0 THEN DefaultMaxRefDepth ELSE options.maxRefDepth

\* The synthetic partial of a circular reference.
circularPartial(ref) ==
  Partial(ref.path,
          Result(FALSE, <<Problem(<<"/">>, <<"Circular reference detected">>)>>,
                 <<>>, JNull, IF ref.version # <<>> THEN ref.version ELSE V30),
          TRUE)

\* const version = ref.version || rootParsed.version
partialVersion(ref, rootVersion) ==
  IF ref.version # <<>> THEN ref.version ELSE rootVersion

\* The evaluations the loop over resolvedRefs asks for.
recursiveRequests(resolvedRefs, rootVersion) ==
  UNION {IF resolvedRefs[k].isCircular \/ resolvedRefs[k].content.t = "null" THEN {}
         ELSE partialRequests(resolvedRefs[k].content,
                              partialVersion(resolvedRefs[k], rootVersion)) :
         k \in 1..Len(resolvedRefs)}

\* Mutant of countValid: every partial counts as a valid document.
countValidAlways(validDocuments, partial) == validDocuments + 1

\* if (partialResult.valid) validDocuments++   (never reached for a circular one)
countValid(validDocuments, partial) ==
  IF ~partial.isCircular /\ partial.result.valid THEN validDocuments + 1
  ELSE validDocuments

\* One turn of the loop over resolvedRefs: a circular reference gets its
\* synthetic partial, a null content is skipped, anything else is validated.
pushPartial(acc, partial) ==
  [partialValidations |-> Append(acc.partialValidations, partial),
   validDocuments |-> countValid(acc.validDocuments, partial)]

\* Mutant of validateRef: a null content is not skipped; it gets a partial
\* entry with the result of its validation.
validateRefNullPushed(acc, ref, rootVersion, ajv) ==
  IF ref.isCircular THEN pushPartial(acc, circularPartial(ref))
  ELSE pushPartial(acc,
                   Partial(ref.path,
                           validatePartialDocument(ref.content,
                                                   partialVersion(ref, rootVersion),
                                                   ref.path, ajv).result,
                           FALSE))

\* recursive-validator.ts lines 57 to 101, one turn of the loop.
validateRef(acc, ref, rootVersion, ajv) ==
  IF ref.isCircular THEN pushPartial(acc, circularPartial(ref))
  ELSE IF ref.content.t = "null" THEN acc
  ELSE pushPartial(acc,
                   Partial(ref.path,
                           validatePartialDocument(ref.content,
                                                   partialVersion(ref, rootVersion),
                                                   ref.path, ajv).result,
                           FALSE))

\* The loop over resolvedRefs, from index k: acc holds partialValidations and
\* validDocuments.
RECURSIVE validateRefs(_, _, _, _, _)
validateRefs(resolvedRefs, k, acc, rootVersion, ajv) ==
  IF k > Len(resolvedRefs) THEN acc
  ELSE validateRefs(resolvedRefs, k + 1,
                    validateRef(acc, resolvedRefs[k], rootVersion, ajv),
                    rootVersion, ajv)

\* Mutant of overallValid: the partial results are ignored.
overallValidRootOnly(rootValidation, partialValidations) == rootValidation.valid

\* rootValidation.valid && partialValidations.every((p) => p.result.valid)
overallValid(rootValidation, partialValidations) ==
  rootValidation.valid
    /\ \A k \in 1..Len(partialValidations) : partialValidations[k].result.valid

\* Mutant of totalDocumentsOf: the root is not counted.
totalDocumentsNoRoot(partialValidations) == Len(partialValidations)

\* totalDocuments: 1 + partialValidations.length
totalDocumentsOf(partialValidations) == 1 + Len(partialValidations)

\* recursive-validator.ts validateRecursively, lines 103 to 123: the combined
\* errors and warnings and the returned result.
combineResults(rootParsed, rootValidation, circularRefs, partialValidations, validDocuments) ==
  RecursiveResult(overallValid(rootValidation, partialValidations),
                  rootValidation.errors
                    \o Flatten([k \in 1..Len(partialValidations) |->
                                  partialValidations[k].result.errors]),
                  rootValidation.warnings
                    \o Flatten([k \in 1..Len(partialValidations) |->
                                  partialValidations[k].result.warnings]),
                  rootParsed.spec, rootParsed.version, partialValidations,
                  circularRefs, totalDocumentsOf(partialValidations), validDocuments)

combineAcc(rootParsed, rootValidation, circularRefs, acc) ==
  combineResults(rootParsed, rootValidation, circularRefs, acc.partialValidations,
                 acc.validDocuments)

\* recursive-validator.ts validateRecursively from line 48 on: the partial
\* validations, then the result.
validateRecursivelyResult(rootParsed, rootValidation, resolvedRefs, circularRefs, ajv) ==
  combineAcc(rootParsed, rootValidation, circularRefs,
             validateRefs(resolvedRefs, 1,
                          [partialValidations |-> <<>>,
                           validDocuments |-> IF rootValidation.valid THEN 1 ELSE 0],
                          rootParsed.version, ajv))

\* Mutant of recursiveErrorResult: the failed source counts as a document.
recursiveErrorResultCounted(file) ==
  RecursiveResult(FALSE,
                  <<Problem(<<"/">>, <<"Failed to parse specification: ", "error">>)>>,
                  <<>>, JNull, V30, <<>>, <<>>, 1, 0)

\* The result validateMultipleRecursively pushes for a source that threw
\* (spec: null in recursive-validator.ts, spec: {} in part_002).
recursiveErrorResult(file) ==
  RecursiveResult(FALSE,
                  <<Problem(<<"/">>, <<"Failed to parse specification: ", "error">>)>>,
                  <<>>, IF file = "part_002" THEN JObj(<<>>) ELSE JNull, V30,
                  <<>>, <<>>, 0, 0)

\* The result validate pushes for a source that threw.
errorResult(config) ==
  Result(FALSE, <<Problem(<<"/">>, <<"Failed to parse specification: ", "error">>)>>,
         <<>>, JObj(<<>>), config.defaultVersion)

\* validateSingle's projection of a recursive result.
projection(recursiveResult) ==
  Result(recursiveResult.valid, recursiveResult.errors, recursiveResult.warnings,
         recursiveResult.spec, recursiveResult.version)

\* validateSingle's merge of options and config: the spread of options comes
\* last, so a strict key that is present wins even when it is undefined.
mergeOptions(options, config) ==
  [options EXCEPT !.strict = IF options.strict = "absent" THEN config.strictMode
                             ELSE options.strict]

\* ------------------------------------------------------------- the inputs

Sources == {SrcA, SrcB, SrcC, SrcS, SrcV4, SrcBad, SrcMissing}

\* The sources a batch is made of (the empty string is one of them).
BatchSources == {SrcA, SrcS, SrcMissing, SrcEmpty}

SourceLists == UNION {[1..n -> BatchSources] : n \in 0..MaxSources}

OptionSets ==
  {Options("absent", FALSE, FALSE, 0), Options("true", FALSE, FALSE, 0),
   Options("absent", TRUE, FALSE, 0), Options("absent", FALSE, TRUE, 0),
   Options("true", TRUE, TRUE, 0), Options("absent", FALSE, TRUE, -1),
   Options("absent", FALSE, TRUE, 2), Options("undefined", FALSE, FALSE, 0),
   Options("false", FALSE, FALSE, 0)}

\* The options a batch is called with.
BatchOptionSets == {Options("absent", FALSE, FALSE, 0), Options("true", FALSE, TRUE, 0)}

Config(strictMode, defaultVersion) ==
  [strictMode |-> strictMode, defaultVersion |-> defaultVersion]

\* varsity.ts defaultConfig, and a strict instance of createVarsity.
defaultConfig == Config("false", V30)
Configs == {defaultConfig, Config("true", V30)}

\* Fragments handed to validatePartialDocument directly.
Fragments ==
  {FragString, FragResponse, ParamP, SelfSchema, Info, JObj(<<>>), JNull,
   JStr(<<"text">>), JArr(<<>>),
   JObj(<< <<"type", JStr(<<"http">>)>>, <<"scheme", JStr(<<"bearer">>)>> >>)}

\* The keys detectPartialType's rules look at (one or more per rule), and
\* the fragments made of up to MaxKeys of them, each with a non-empty string.
ShapeKeys ==
  <<"type", "name", "in", "description", "content", "schema", "get", "value",
    "operationId", "expression", "scheme">>

ShapeObject(keys) ==
  LET Chosen(key) == key \in keys
      chosen == SelectSeq(ShapeKeys, Chosen)
  IN JObj([k \in 1..Len(chosen) |-> <<chosen[k], JStr(<<"x">>)>>])

\* Fragments whose keys hold falsy or non-string values.
FalsyFragments ==
  {JObj(<< <<"value", JNull>> >>),
   JObj(<< <<"description", JStr(<<>>)>>, <<"content", JObj(<<>>)>> >>),
   JObj(<< <<"expression", JObj(<<>>)>> >>),
   JObj(<< <<"type", JStr(<<>>)>>, <<"scheme", JStr(<<"x">>)>> >>),
   JObj(<< <<"name", JStr(<<>>)>>, <<"schema", JObj(<<>>)>> >>),
   JObj(<< <<"type", JNum("0")>>, <<"name", JStr(<<"id">>)>>,
           <<"in", JStr(<<"query">>)>> >>),
   JObj(<< <<"get", [t |-> "bool", s |-> <<"false">>, kv |-> <<>>]>>,
           <<"content", JObj(<<>>)>> >>),
   JObj(<< <<"summary", JNull>>, <<"operationId", JStr(<<"op">>)>> >>),
   JObj(<< <<"description", JNull>>, <<"schema", JObj(<<>>)>> >>),
   JObj(<< <<"value", JStr(<<>>)>> >>),
   JObj(<< <<"value", JNum("0")>>, <<"expression", JStr(<<>>)>> >>),
   JObj(<< <<"value", [t |-> "bool", s |-> <<"false">>, kv |-> <<>>]>> >>),
   JObj(<< <<"operationId", JNum("0")>>, <<"expression", JStr(<<"$url">>)>> >>)}

ShapeFragments ==
  {ShapeObject(keys) :
     keys \in {ks \in SUBSET {ShapeKeys[k] : k \in 1..Len(ShapeKeys)} :
                 Cardinality(ks) <= MaxKeys}}
    \cup FalsyFragments \cup Fragments

Versions == {V20, V30, V303, V301, V31, V310, V40}

Specs == {DocA, DocB, DocC, DocS, DocH, DocK, DocE}

\* ------------------------------------------------------ reference analysis

\* recursive-validator.ts analyzeReferences, the referenceMap: its keys are
\* the reference values in the order of their first occurrence.
referenceMapKeys(references) ==
  LET first(k) == \A j \in 1..(k - 1) : references[j].value # references[k].value
  IN Flatten([k \in 1..Len(references) |->
                IF first(k) THEN <<references[k].value>> ELSE <<>>])

\* referenceMap.get(refValue): the paths of the sites that hold refValue.
referenceMapGet(references, refValue) ==
  Flatten([k \in 1..Len(references) |->
             IF references[k].value = refValue THEN <<references[k].path>> ELSE <<>>])

\* What analyzeReferences returns.
Analysis(references, circularReferences, totalReferences) ==
  [references |-> references, circularReferences |-> circularReferences,
   totalReferences |-> totalReferences]

NoAnalysis == Analysis(<<>>, <<>>, 0)

\* Mutant of analyzeReferences: one push per site of a repeated value.
analyzeReferencesPerSite(src) ==
  LET parsed == parseOpenAPISpec(src)
      references == findReferences(parsed.spec, <<>>)
  IN IF parsed.threw THEN [threw |-> TRUE, value |-> NoAnalysis]
     ELSE [threw |-> FALSE,
           value |-> Analysis(references,
                       Flatten([k \in 1..Len(references) |->
                          IF Len(referenceMapGet(references, references[k].value)) > 1
                          THEN <<references[k].value>> ELSE <<>>]),
                       Len(references))]

\* recursive-validator.ts analyzeReferences: parse, find, group by value, and
\* report the values that have more than one path.
analyzeReferences(src) ==
  LET parsed == parseOpenAPISpec(src)
      references == findReferences(parsed.spec, <<>>)
      keys == referenceMapKeys(references)
  IN IF parsed.threw THEN [threw |-> TRUE, value |-> NoAnalysis]
     ELSE [threw |-> FALSE,
           value |-> Analysis(references,
                       Flatten([k \in 1..Len(keys) |->
                          IF Len(referenceMapGet(references, keys[k])) > 1
                          THEN <<keys[k]>> ELSE <<>>]),
                       Len(references))]

\* Trees handed to findReferences directly: $ref keys inside an array, a
\* $ref key that holds an object, one that holds a number, one that holds
\* null; an empty key at the root; an empty key below the root.
TreeArray ==
  JObj(<< <<"a", JArr(<< <<"0", Ref(RefFile)>>,
                         <<"1", JNum("7")>>,
                         <<"2", JObj(<< <<"b", Ref(RefSelf)>> >>)>> >>)>>,
          <<"$ref", JObj(<< <<"$ref", JStr(RefUrl)>>, <<"k", JNull>> >>)>>,
          <<"n", JObj(<< <<"$ref", JNum("7")>> >>)>>,
          <<"z", JObj(<< <<"$ref", JNull>> >>)>> >>)

TreeEmptyKey == JObj(<< <<"", Ref(RefFile)>> >>)

Trees ==
  {TreeArray, TreeEmptyKey, JObj(<< <<"a", TreeEmptyKey>> >>), JNull,
   JStr(RefFile), JObj(<<>>), DocA, DocB, DocC, DocS}

\* ------------------------------------------------------------------- state

VARIABLES
  api,              \* the exported function that was called
  variant,          \* which of the two recursive-validator files is linked
  pc,               \* where that call stands
  options,          \* its options argument
  config,           \* its config argument (validate)
  args,             \* the arguments of a direct call
  sources,          \* the batch: the list of sources
  idx,              \* the batch: index of the source in hand
  results,          \* the batch: results pushed so far
  source,           \* the source in hand
  validationOptions,\* the options validateRecursively runs with
  rootParsed,       \* validateRecursively: the parsed root
  rootValidation,   \* validateRecursively: the root's ValidationResult
  context,          \* resolveAllReferences: the shared ReferenceContext
  refs,             \* resolveAllReferences: findReferences(document)
  refIdx,           \* resolveAllReferences: index of the reference in hand
  resolvedRefs,     \* resolveAllReferences: resolvedRefs
  circularRefs,     \* resolveAllReferences: circularRefs
  ret,              \* what the call returned or threw
  ajv               \* the evaluator: the violations of each evaluation made

vars ==
  <<api, variant, pc, options, config, args, sources, idx, results, source,
    validationOptions, rootParsed, rootValidation, context, refs, refIdx,
    resolvedRefs, circularRefs, ret, ajv>>

batchVars == <<sources, idx, results>>
frameVars ==
  <<rootParsed, rootValidation, context, refs, refIdx, resolvedRefs, circularRefs>>

NoArgs ==
  [document |-> Undefined, version |-> <<>>, documentPath |-> <<>>, ref |-> <<>>,
   visited |-> {}]
NoParsed == [threw |-> FALSE, spec |-> Undefined, version |-> <<>>]
NoContext == Context(<<>>, {}, 0, 0, Undefined)
NoRet == [kind |-> "none", value |-> NoResult]
Returned(value) == [kind |-> "value", value |-> value]
Thrown == [kind |-> "throw", value |-> NoResult]
NoAjv == [r \in {} |-> <<>>]

Init ==
  /\ api = "none"
  /\ variant = "recursive-validator.ts"
  /\ pc = "idle"
  /\ options = Options("absent", FALSE, FALSE, 0)
  /\ config = defaultConfig
  /\ args = NoArgs
  /\ sources = <<>>
  /\ idx = 1
  /\ results = <<>>
  /\ source = <<>>
  /\ validationOptions = Options("absent", FALSE, FALSE, 0)
  /\ rootParsed = NoParsed
  /\ rootValidation = NoResult
  /\ context = NoContext
  /\ refs = <<>>
  /\ refIdx = 1
  /\ resolvedRefs = <<>>
  /\ circularRefs = <<>>
  /\ ret = NoRet
  /\ ajv = NoAjv

\* The evaluator answers the evaluations in requests: those it has made
\* before as before, the new ones with any list of violations.
Evaluations(requests) ==
  {f @@ ajv : f \in [{r \in requests : r \notin DOMAIN ajv} -> ViolationLists]}

\* ------------------------------------------------------ the exported calls

\* validateRecursively(source, options)
CallValidateRecursively(src, opts) ==
  /\ pc = "idle"
  /\ api' = "validateRecursively"
  /\ source' = src
  /\ options' = opts
  /\ validationOptions' = opts
  /\ pc' = "parse"
  /\ UNCHANGED <<variant, config, args, batchVars, frameVars, ret, ajv>>

\* validateMultipleRecursively(sources, options), of either file.
CallValidateMultipleRecursively(srcs, opts, file) ==
  /\ pc = "idle"
  /\ api' = "validateMultipleRecursively"
  /\ variant' = file
  /\ sources' = srcs
  /\ options' = opts
  /\ validationOptions' = opts
  /\ pc' = "next"
  /\ UNCHANGED <<config, args, idx, results, source, frameVars, ret, ajv>>

\* validate(source, options, config) with one source.
CallValidate(src, opts, cfg) ==
  /\ pc = "idle"
  /\ api' = "validate"
  /\ source' = src
  /\ options' = opts
  /\ config' = cfg
  /\ pc' = "parseSingle"
  /\ UNCHANGED <<variant, args, batchVars, validationOptions, frameVars, ret, ajv>>

\* validate(sources, options, config) with an array of sources.
CallValidateArray(srcs, opts, cfg) ==
  /\ pc = "idle"
  /\ api' = "validate[]"
  /\ sources' = srcs
  /\ options' = opts
  /\ config' = cfg
  /\ pc' = "next"
  /\ UNCHANGED <<variant, args, idx, results, source, validationOptions, frameVars,
                 ret, ajv>>

\* validatePartialDocument(document, version, documentPath): synchronous.
CallValidatePartialDocument(document, version, documentPath) ==
  /\ pc = "idle"
  /\ api' = "validatePartialDocument"
  /\ args' = [NoArgs EXCEPT !.document = document, !.version = version,
                            !.documentPath = documentPath]
  /\ \E oracle \in Evaluations(partialRequests(document, version)) :
       LET out == validatePartialDocument(document, version, documentPath, oracle)
       IN /\ ajv' = oracle
          /\ ret' = IF out.threw THEN Thrown ELSE Returned(out.result)
  /\ pc' = "done"
  /\ UNCHANGED <<variant, options, config, batchVars, source, validationOptions,
                 frameVars>>

\* detectPartialType(doc, version): synchronous; it returns a kind or null.
CallDetectPartialType(document, version) ==
  /\ pc = "idle"
  /\ api' = "detectPartialType"
  /\ args' = [NoArgs EXCEPT !.document = document, !.version = version]
  /\ LET out == detectPartialType(document, version)
     IN ret' = IF out.threw THEN Thrown
               ELSE IF out.kind = "null" THEN Returned(JNull)
               ELSE Returned(JStr(<<out.kind>>))
  /\ pc' = "done"
  /\ UNCHANGED <<variant, options, config, batchVars, source, validationOptions,
                 frameVars, ajv>>

\* analyzeReferences(source): it parses the source and returns, or throws.
CallAnalyzeReferences(src) ==
  /\ pc = "idle"
  /\ api' = "analyzeReferences"
  /\ source' = src
  /\ LET out == analyzeReferences(src)
     IN ret' = IF out.threw THEN [kind |-> "throw", value |-> NoAnalysis]
               ELSE [kind |-> "value", value |-> out.value]
  /\ pc' = "done"
  /\ UNCHANGED <<variant, options, config, args, batchVars, validationOptions,
                 frameVars, ajv>>

\* findReferences(obj): synchronous; it returns its list.
CallFindReferences(obj) ==
  /\ pc = "idle"
  /\ api' = "findReferences"
  /\ args' = [NoArgs EXCEPT !.document = obj]
  /\ ret' = [kind |-> "value", value |-> findReferences(obj, <<>>)]
  /\ pc' = "done"
  /\ UNCHANGED <<variant, options, config, batchVars, source, validationOptions,
                 frameVars, ajv>>

\* validateOpenAPISpec(spec, version, options): synchronous.
CallValidateOpenAPISpec(spec, version, opts) ==
  /\ pc = "idle"
  /\ api' = "validateOpenAPISpec"
  /\ args' = [NoArgs EXCEPT !.document = spec, !.version = version]
  /\ options' = opts
  /\ \E oracle \in Evaluations(specRequests(spec, version)) :
       LET out == validateOpenAPISpec(spec, version, opts, oracle)
       IN /\ ajv' = oracle
          /\ ret' = IF out.threw THEN Thrown ELSE Returned(out.result)
  /\ pc' = "done"
  /\ UNCHANGED <<variant, config, batchVars, source, validationOptions, frameVars>>

\* resolveReference(ref, context), called directly: it runs to its return,
\* its throw, or its fetch.
CallResolveReference(ref, ctx) ==
  /\ pc = "idle"
  /\ api' = "resolveReference"
  /\ args' = [NoArgs EXCEPT !.ref = ref, !.visited = ctx.visited]
  /\ LET out == resolveReference(ref, ctx, Files(resolvePath(ref)))
     IN /\ context' = [ctx EXCEPT !.visited = out.visited]
        /\ ret' = IF out.kind = "return"
                  THEN [kind |-> "value", value |-> out.resolved]
                  ELSE IF out.kind = "throw"
                  THEN [kind |-> "throw", value |-> NoResolved]
                  ELSE [kind |-> "none", value |-> NoResolved]
        /\ pc' = IF out.kind = "await" THEN "fetchOne" ELSE "done"
  /\ UNCHANGED <<variant, options, config, batchVars, source, validationOptions,
                 rootParsed, rootValidation, refs, refIdx, resolvedRefs,
                 circularRefs, ajv>>

\* The fetch of a directly called resolveReference comes back.
FetchOne(response) ==
  /\ pc = "fetchOne"
  /\ LET out == resolveReferenceFetched(args.ref, context, response)
     IN /\ context' = [context EXCEPT !.visited = out.visited]
        /\ ret' = IF out.kind = "return"
                  THEN [kind |-> "value", value |-> out.resolved]
                  ELSE [kind |-> "throw", value |-> NoResolved]
  /\ pc' = "done"
  /\ UNCHANGED <<api, variant, options, config, args, batchVars, source,
                 validationOptions, rootParsed, rootValidation, refs, refIdx,
                 resolvedRefs, circularRefs, ajv>>

\* ------------------------------------------------------------- the steps

IsBatch == api \in {"validateMultipleRecursively", "validate[]"}

\* if (!source) continue: validate, and part_002's validateMultipleRecursively.
skipsEmpty == api = "validate[]" \/ variant = "part_002"

\* The call in hand ends for its source: a single call returns or throws; a
\* batch pushes the result, or its error result in the catch block, and goes
\* on to the next source. A call that threw leaves no locals behind.
Deliver(threw, value) ==
  IF IsBatch
  THEN /\ results' = Append(results,
                            IF ~threw THEN value
                            ELSE IF api = "validate[]" THEN errorResult(config)
                            ELSE recursiveErrorResult(variant))
       /\ idx' = idx + 1
       /\ pc' = "next"
       /\ rootParsed' = IF threw THEN NoParsed ELSE rootParsed
       /\ rootValidation' = IF threw THEN NoResult ELSE rootValidation
       /\ context' = IF threw THEN NoContext ELSE context
       /\ refs' = IF threw THEN <<>> ELSE refs
       /\ refIdx' = IF threw THEN 1 ELSE refIdx
       /\ resolvedRefs' = IF threw THEN <<>> ELSE resolvedRefs
       /\ circularRefs' = IF threw THEN <<>> ELSE circularRefs
       /\ UNCHANGED <<sources, ret>>
  ELSE /\ ret' = IF threw THEN Thrown ELSE Returned(value)
       /\ pc' = "done"
       /\ UNCHANGED <<batchVars, frameVars>>

\* The for loop of a batch: the next source, or the return of the results.
NextSource ==
  /\ pc = "next"
  /\ IF idx > Len(sources)
     THEN /\ ret' = Returned(results)
          /\ pc' = "done"
          /\ UNCHANGED <<idx, source>>
     ELSE IF skipsEmpty /\ sources[idx] = <<>>
     THEN /\ idx' = idx + 1
          /\ UNCHANGED <<pc, source, ret>>
     ELSE /\ source' = sources[idx]
          /\ pc' = IF api = "validate[]" THEN "parseSingle" ELSE "parse"
          /\ UNCHANGED <<idx, ret>>
  /\ UNCHANGED <<api, variant, options, config, args, sources, results,
                 validationOptions, frameVars, ajv>>

\* varsity.ts validateSingle: parse, merge the options, then either hand over
\* to validateRecursively or validate the document.
ParseSingle ==
  /\ pc = "parseSingle"
  /\ LET parsed == parseOpenAPISpec(source)
         merged == mergeOptions(options, config)
     IN IF parsed.threw
        THEN Deliver(TRUE, NoResult) /\ UNCHANGED <<ajv, validationOptions>>
        ELSE IF options.recursive
        THEN /\ pc' = "parse"
             /\ validationOptions' = merged
             /\ UNCHANGED <<batchVars, frameVars, ret, ajv>>
        ELSE \E oracle \in Evaluations(specRequests(parsed.spec, parsed.version)) :
               LET out == validateOpenAPISpec(parsed.spec, parsed.version, merged, oracle)
               IN /\ ajv' = oracle
                  /\ validationOptions' = merged
                  /\ Deliver(out.threw, out.result)
  /\ UNCHANGED <<api, variant, options, config, args, source>>

\* Mutant of newContext: the context of the call before is used again.
newContextKept(basePath, maxDepth, document) ==
  IF context = NoContext THEN Context(basePath, {}, maxDepth, 0, document)
  ELSE context

\* Mutant of newContext: visited starts with the references of the document.
newContextVisited(basePath, maxDepth, document) ==
  LET found == findReferences(document, <<>>)
  IN Context(basePath, {found[k].value : k \in 1..Len(found)}, maxDepth, 0, document)

\* resolveAllReferences: a new visited set and a new context for each call.
newContext(basePath, maxDepth, document) ==
  Context(basePath, {}, maxDepth, 0, document)

\* validateRecursively up to its first reference: parseOpenAPISpec,
\* validateOpenAPISpec, and resolveAllReferences' context and findReferences.
Parse ==
  /\ pc = "parse"
  /\ LET parsed == parseOpenAPISpec(source)
     IN IF parsed.threw
        THEN Deliver(TRUE, NoResult) /\ UNCHANGED ajv
        ELSE \E oracle \in Evaluations(specRequests(parsed.spec, parsed.version)) :
               LET out == validateOpenAPISpec(parsed.spec, parsed.version,
                                              validationOptions, oracle)
               IN /\ ajv' = oracle
                  /\ IF out.threw
                     THEN Deliver(TRUE, NoResult)
                     ELSE /\ rootParsed' = parsed
                          /\ rootValidation' = out.result
                          /\ context' = newContext(source, maxDepthOf(validationOptions),
                                                   parsed.spec)
                          /\ refs' = findReferences(parsed.spec, <<>>)
                          /\ refIdx' = 1
                          /\ resolvedRefs' = <<>>
                          /\ circularRefs' = <<>>
                          /\ pc' = "resolve"
                          /\ UNCHANGED <<batchVars, ret>>
  /\ UNCHANGED <<api, variant, options, config, args, source, validationOptions>>

\* Mutant of pushResolved: the resolved content is scanned as well, and each
\* $ref inside it is pushed as a resolution of its own.
pushResolvedNested(resolved, r) ==
  LET nested == findReferences(r.content, <<>>)
  IN Append(resolved, r)
       \o [k \in 1..Len(nested) |->
            Resolved(nested[k].value, JNull, <<>>, FALSE, r.depth + 1)]

\* resolveAllReferences: resolvedRefs.push(resolved).
pushResolved(resolved, r) == Append(resolved, r)

\* Mutant of caught: a failed resolution is pushed as a circular reference.
caughtPushed(resolved, ref) ==
  Append(resolved, Resolved(ref, JNull, <<>>, TRUE, 0))

\* resolveAllReferences' catch block: the failure is logged, nothing is pushed.
caught(resolved, ref) == resolved

\* resolveAllReferences takes what resolveReference came to: a return is
\* pushed (and listed when circular), a throw is caught and logged.
Settle(ref, out) ==
  /\ context' = [context EXCEPT !.visited = out.visited]
  /\ IF out.kind = "await"
     THEN /\ pc' = "fetch"
          /\ UNCHANGED <<refIdx, resolvedRefs, circularRefs>>
     ELSE /\ pc' = "resolve"
          /\ refIdx' = refIdx + 1
          /\ resolvedRefs' = IF out.kind = "return"
                             THEN pushResolved(resolvedRefs, out.resolved)
                             ELSE caught(resolvedRefs, ref)
          /\ circularRefs' = IF out.kind = "return" /\ out.resolved.isCircular
                             THEN Append(circularRefs, ref)
                             ELSE circularRefs

\* One turn of resolveAllReferences' loop, up to resolveReference's return,
\* throw or fetch.
Resolve ==
  /\ pc = "resolve"
  /\ refIdx <= Len(refs)
  /\ LET ref == refs[refIdx].value
     IN Settle(ref, resolveReference(ref, context, Files(resolvePath(ref))))
  /\ UNCHANGED <<api, variant, options, config, args, batchVars, source,
                 validationOptions, rootParsed, rootValidation, refs, ret, ajv>>

\* The fetch of the reference in hand comes back.
Fetch(response) ==
  /\ pc = "fetch"
  /\ LET ref == refs[refIdx].value
     IN Settle(ref, resolveReferenceFetched(ref, context, response))
  /\ UNCHANGED <<api, variant, options, config, args, batchVars, source,
                 validationOptions, rootParsed, rootValidation, refs, ret, ajv>>

\* validateRecursively after resolveAllReferences: lines 48 to 123.
Aggregate ==
  /\ pc = "resolve"
  /\ refIdx > Len(refs)
  /\ \E oracle \in Evaluations(recursiveRequests(resolvedRefs, rootParsed.version)) :
       LET result == validateRecursivelyResult(rootParsed, rootValidation,
                                               resolvedRefs, circularRefs, oracle)
       IN /\ ajv' = oracle
          /\ Deliver(FALSE, IF api \in {"validate", "validate[]"}
                            THEN projection(result) ELSE result)
  /\ UNCHANGED <<api, variant, options, config, args, source, validationOptions>>

\* -------------------------------------------------------- the specification

ResolveContexts ==
  {Context(SrcA, visited, maxDepth, currentDepth, DocA) :
     visited \in SUBSET {RefSelf, RefUrl}, maxDepth \in {1, DefaultMaxRefDepth},
     currentDepth \in {0, 1}}

ResolveRefs == {RefSelf, RefMissing, RefUrl, RefFile, RefNoFile}

Next ==
  \/ /\ pc = "idle"
     /\ \E src \in Sources, opts \in OptionSets : CallValidateRecursively(src, opts)
  \/ /\ pc = "idle"
     /\ \E srcs \in SourceLists, opts \in BatchOptionSets,
           file \in {"recursive-validator.ts", "part_002"} :
          CallValidateMultipleRecursively(srcs, opts, file)
  \/ /\ pc = "idle"
     /\ \E src \in Sources, opts \in OptionSets, cfg \in Configs :
          CallValidate(src, opts, cfg)
  \/ /\ pc = "idle"
     /\ \E srcs \in SourceLists, opts \in BatchOptionSets, cfg \in Configs :
          CallValidateArray(srcs, opts, cfg)
  \/ /\ pc = "idle"
     /\ \E document \in Fragments, version \in Versions,
           documentPath \in {<<>>, RefParam} :
          CallValidatePartialDocument(document, version, documentPath)
  \/ /\ pc = "idle"
     /\ \E document \in ShapeFragments, version \in Versions :
          CallDetectPartialType(document, version)
  \/ /\ pc = "idle"
     /\ \E src \in Sources : CallAnalyzeReferences(src)
  \/ /\ pc = "idle"
     /\ \E obj \in Trees : CallFindReferences(obj)
  \/ /\ pc = "idle"
     /\ \E spec \in Specs, version \in Versions, opts \in OptionSets :
          CallValidateOpenAPISpec(spec, version, opts)
  \/ /\ pc = "idle"
     /\ \E ref \in ResolveRefs, ctx \in ResolveContexts : CallResolveReference(ref, ctx)
  \/ \E response \in Responses : FetchOne(response)
  \/ NextSource
  \/ ParseSingle
  \/ Parse
  \/ Resolve
  \/ \E response \in Responses : Fetch(response)
  \/ Aggregate

Spec == Init /\ [][Next]_vars


\* ------------------------------------------------------------ the properties

\* The locals of validateRecursively are those of the result last produced.
FrameLive == rootParsed.spec.t # "undef" /\ pc \in {"next", "done"}

\* The RecursiveValidationResults the call has returned or pushed so far.
RecursiveReturns ==
  (IF api = "validateRecursively" /\ ret.kind = "value" THEN {ret.value} ELSE {})
    \cup (IF api = "validateMultipleRecursively"
          THEN {results[k] : k \in 1..Len(results)} ELSE {})

\* The partial results inside them.
PartialReturns ==
  UNION {{r.partialValidations[k] : k \in 1..Len(r.partialValidations)} :
         r \in RecursiveReturns}

\* valid and the number of errors of every ValidationResult in the state.
Verdict(r) == [valid |-> r.valid, errors |-> Len(r.errors), warnings |-> Len(r.warnings)]

Verdicts ==
  {Verdict(r) : r \in RecursiveReturns}
    \cup {Verdict(p.result) : p \in PartialReturns}
    \cup (IF rootParsed.spec.t # "undef" THEN {Verdict(rootValidation)} ELSE {})
    \cup (IF api \in {"validate", "validatePartialDocument", "validateOpenAPISpec"}
             /\ ret.kind = "value"
          THEN {Verdict(ret.value)} ELSE {})
    \cup (IF api = "validate[]" THEN {Verdict(results[k]) : k \in 1..Len(results)}
          ELSE {})

\* C1: every ValidationResult produced (whole document, fragment, synthetic
\* circular or failure result, aggregated recursive result) has valid = true
\* exactly when its errors list is empty, whatever its warnings.
C1_ValidIffNoErrors == \A v \in Verdicts : v.valid = (v.errors = 0)

\* C1 witness: a recursive result that is valid although it carries warnings,
\* with partial results inside it.
C1_Witness ==
  /\ api = "validateRecursively" /\ pc = "done" /\ ret.kind = "value"
  /\ ret.value.valid
  /\ Len(ret.value.warnings) > 0
  /\ Len(ret.value.partialValidations) > 0

\* A batch element that stands for a source that could not be loaded or parsed.
IsFailureResult(r) ==
  /\ r.spec \in {JNull, JObj(<<>>)}
  /\ r.version = V30
  /\ ~r.valid

\* C2 (as stated): in every RecursiveValidationResult, the one produced for a
\* source that failed to load or parse included, totalDocuments is
\* 1 + partialValidations.length.
C2_TotalDocumentsAlways ==
  \A r \in RecursiveReturns : r.totalDocuments = 1 + Len(r.partialValidations)

\* C2 (amended): totalDocuments is 1 + partialValidations.length in every
\* result of a source that was loaded and parsed; the result pushed for a
\* source that failed has totalDocuments 0 and no partial validations.
C2_TotalDocuments ==
  \A r \in RecursiveReturns :
    IF IsFailureResult(r)
    THEN r.totalDocuments = 0 /\ r.partialValidations = <<>>
    ELSE r.totalDocuments = 1 + Len(r.partialValidations)

\* C2 witness: a batch holding a failure result and a result with partials.
C2_Witness ==
  /\ api = "validateMultipleRecursively" /\ pc = "done"
  /\ \E r \in RecursiveReturns : IsFailureResult(r)
  /\ \E r \in RecursiveReturns :
       ~IsFailureResult(r) /\ Len(r.partialValidations) >= 2

\* The partial entries of r that are valid and not circular.
ValidPartials(r) ==
  {k \in 1..Len(r.partialValidations) :
     ~r.partialValidations[k].isCircular /\ r.partialValidations[k].result.valid}

\* The result the live locals belong to.
FrameResults ==
  IF ~FrameLive THEN {}
  ELSE IF api = "validateRecursively" /\ ret.kind = "value" THEN {ret.value}
  ELSE IF api = "validateMultipleRecursively" /\ Len(results) > 0
  THEN {results[Len(results)]}
  ELSE {}

\* C3: validDocuments is 1 when the root validation is valid (else 0) plus
\* the number of non-circular partial validations that are valid, and it
\* never exceeds totalDocuments.
C3_ValidDocuments ==
  /\ \A r \in FrameResults :
       r.validDocuments = (IF rootValidation.valid THEN 1 ELSE 0)
                            + Cardinality(ValidPartials(r))
  /\ \A r \in RecursiveReturns : r.validDocuments <= r.totalDocuments

\* C3 witness: a valid root with one valid and one invalid partial.
C3_Witness ==
  /\ api = "validateRecursively" /\ pc = "done" /\ ret.kind = "value"
  /\ rootValidation.valid
  /\ Cardinality(ValidPartials(ret.value)) >= 1
  /\ Cardinality(ValidPartials(ret.value)) < Len(ret.value.partialValidations)


\* The violations the evaluator reported for the evaluation asked for.
ReportedFor(requests) ==
  IF requests = {} THEN <<>> ELSE ajv[CHOOSE r \in requests : TRUE]

FromSchema(problem) == problem.schemaPath # <<>>
ErrorClass(violation) == violation.keyword \in {"required", "type"}
WarningClass(violation) == violation.keyword \notin {"required", "type"}
SchemaPathsOf(list) == [k \in 1..Len(list) |-> list[k].schemaPath]

\* Each reported violation is in exactly one list of the result: errors for
\* `required` and `type`, warnings for the rest, in the order reported.
Partitioned(result, violations) ==
  /\ SchemaPathsOf(SelectSeq(result.errors, FromSchema))
       = SchemaPathsOf(SelectSeq(violations, ErrorClass))
  /\ SchemaPathsOf(SelectSeq(result.warnings, FromSchema))
       = SchemaPathsOf(SelectSeq(violations, WarningClass))

\* C4: in the whole-document validator and in the partial validator alike, a
\* schema violation whose keyword is `required` or `type` is an error and
\* any other violation a warning; none is dropped, none is in both lists.
C4_SeverityPartition ==
  /\ (api = "validatePartialDocument" /\ ret.kind = "value")
       => Partitioned(ret.value,
                      ReportedFor(partialRequests(args.document, args.version)))
  /\ (api = "validateOpenAPISpec" /\ ret.kind = "value")
       => Partitioned(ret.value,
                      ReportedFor(specRequests(args.document, args.version)))
  /\ FrameLive
       => Partitioned(rootValidation,
                      ReportedFor(specRequests(rootParsed.spec, rootParsed.version)))
  /\ \A p \in PartialReturns :
       ~p.isCircular
         => Partitioned(p.result,
                        ReportedFor(partialRequests(p.result.spec, p.result.version)))

\* C4 witness: a root with a `type` violation among its errors and a
\* fragment with a `format` violation among its warnings.
C4_Witness ==
  /\ api = "validateRecursively" /\ pc = "done" /\ ret.kind = "value"
  /\ \E k \in 1..Len(rootValidation.errors) :
       rootValidation.errors[k].schemaPath = <<"#", "/", "type">>
  /\ \E p \in PartialReturns :
       \E k \in 1..Len(p.result.warnings) :
         p.result.warnings[k].schemaPath = <<"#", "/", "format">>

\* C5: resolveReference(X, context) with X already in context.visited
\* returns a resolution with isCircular = true and content = null; it does
\* not throw and starts no load, fetch or pointer walk, whatever the depth.
C5_VisitedIsCircular ==
  (api = "resolveReference" /\ args.ref \in args.visited)
    => /\ pc = "done"
       /\ ret.kind = "value"
       /\ ret.value.isCircular
       /\ ret.value.content = JNull
       /\ ret.value.path = args.ref
       /\ context.visited = args.visited

\* C5 witness: a visited URL reference, at a depth that has reached the limit.
C5_Witness ==
  /\ api = "resolveReference" /\ pc = "done"
  /\ args.ref = RefUrl /\ RefUrl \in args.visited
  /\ context.currentDepth >= context.maxDepth
  /\ ret.kind = "value" /\ ret.value.isCircular

\* The sites of the root document whose $ref is X.
SitesOf(X) == {k \in 1..Len(refs) : refs[k].value = X}

\* The partial entries of r for X.
EntriesOf(r, X) ==
  {k \in 1..Len(r.partialValidations) : r.partialValidations[k].path = X}

\* C6: a resolvable reference X that occurs at two sites of the root is
\* resolved twice by validateRecursively, neither resolution is circular,
\* and it gets one partial entry per site.
C6_RepeatedReference ==
  (api = "validateRecursively" /\ pc = "done" /\ ret.kind = "value"
     /\ maxDepthOf(validationOptions) > 0)
    => \A X \in {RefSelf, RefParam} :
         Cardinality(SitesOf(X)) >= 2
           => /\ Cardinality({k \in 1..Len(resolvedRefs) : resolvedRefs[k].path = X})
                   = Cardinality(SitesOf(X))
              /\ \A k \in 1..Len(resolvedRefs) :
                   resolvedRefs[k].path = X => ~resolvedRefs[k].isCircular
              /\ Cardinality(EntriesOf(ret.value, X)) = Cardinality(SitesOf(X))
              /\ \A k \in EntriesOf(ret.value, X) :
                   ~ret.value.partialValidations[k].isCircular
              /\ \A k \in 1..Len(ret.value.circularReferences) :
                   ret.value.circularReferences[k] # X

\* C6 witness: the parameter referenced twice has its two partial entries.
C6_Witness ==
  /\ api = "validateRecursively" /\ pc = "done" /\ ret.kind = "value"
  /\ Cardinality(SitesOf(RefParam)) = 2
  /\ Cardinality(EntriesOf(ret.value, RefParam)) = 2
  /\ ret.value.circularReferences = <<>>


\* The fragment schema the normalized version bucket holds for the fragment.
BucketRequests(document, version) ==
  LET partialType == detectPartialType(document, version) IN
  IF partialType.threw \/ partialType.kind = "null" THEN {}
  ELSE IF schemaKey(normalizeVersion(version), partialType.kind) \notin partialSchemas
  THEN {}
  ELSE {Request(schemaKey(normalizeVersion(version), partialType.kind), document)}

\* C7 (as stated): validatePartialDocument looks the fragment schema up under
\* the normalized version bucket, so "3.0.3", "3.0.1" and "3.0" select the
\* same schema and a fragment of a root declaring openapi 3.0.3 is evaluated
\* against the 3.0 schema of its kind, not reported as having no schema.
C7_NormalizedFragmentVersion ==
  /\ (api = "validatePartialDocument" /\ ret.kind = "value")
       => BucketRequests(args.document, args.version) \subseteq DOMAIN ajv
  /\ \A p \in PartialReturns :
       ~p.isCircular
         => BucketRequests(p.result.spec, p.result.version) \subseteq DOMAIN ajv

\* C8: the valid flag of validateRecursively's result is true exactly when
\* the root validation is valid and every partial result is valid; a circular
\* partial is always invalid.
C8_OverallValid ==
  /\ \A r \in FrameResults :
       r.valid = (rootValidation.valid
                    /\ \A k \in 1..Len(r.partialValidations) :
                         r.partialValidations[k].result.valid)
  /\ \A p \in PartialReturns : p.isCircular => ~p.result.valid
  /\ \A r \in RecursiveReturns :
       (r.circularReferences # <<>>) => ~r.valid

\* C8 witness: a valid root made invalid overall by an invalid partial, next
\* to a valid one.
C8_Witness ==
  /\ api = "validateRecursively" /\ pc = "done" /\ ret.kind = "value"
  /\ rootValidation.valid
  /\ ~ret.value.valid
  /\ \E p \in PartialReturns : p.result.valid
  /\ \E p \in PartialReturns : ~p.result.valid

\* C9: in validateRecursively a reference whose resolution fails is skipped:
\* it gets no resolved entry, no partial entry and no error, the call still
\* returns, totalDocuments counts the root and the partial entries only, and
\* every resolvable reference of the root still has one entry per site.
C9_FailedResolutionSkipped ==
  (api = "validateRecursively" /\ pc = "done" /\ rootParsed.spec.t # "undef")
    => /\ ret.kind = "value"
       /\ \A F \in {RefMissing, RefNoFile} :
            /\ \A k \in 1..Len(resolvedRefs) : resolvedRefs[k].path # F
            /\ EntriesOf(ret.value, F) = {}
            /\ \A k \in 1..Len(ret.value.errors) :
                 ~startsWith(ret.value.errors[k].path, F)
       /\ ret.value.errors
            = rootValidation.errors
                \o Flatten([k \in 1..Len(ret.value.partialValidations) |->
                              ret.value.partialValidations[k].result.errors])
       /\ ret.value.totalDocuments = 1 + Len(ret.value.partialValidations)
       /\ maxDepthOf(validationOptions) > 0
            => \A X \in {RefSelf, RefParam, RefFile} :
                 Cardinality(EntriesOf(ret.value, X)) = Cardinality(SitesOf(X))

\* C9 witness: a broken pointer between two sites of a resolvable reference,
\* both of which have their partial entry.
C9_Witness ==
  /\ api = "validateRecursively" /\ pc = "done" /\ ret.kind = "value"
  /\ \E i, j, k \in 1..Len(refs) :
       /\ i < j /\ j < k
       /\ refs[i].value = RefParam /\ refs[j].value = RefMissing
       /\ refs[k].value = RefParam
  /\ Cardinality(EntriesOf(ret.value, RefParam)) = 2
  /\ ret.value.totalDocuments = 3

\* C10 (as stated): a batch (validate with an array of sources,
\* validateMultipleRecursively) returns exactly one result per source, the
\* i-th result being that of the i-th source, for every list of sources.
C10_OneResultPerSource ==
  (IsBatch /\ pc = "done")
    => /\ ret.kind = "value"
       /\ Len(ret.value) = Len(sources)
       /\ \A i \in 1..Len(sources) :
            i <= Len(ret.value)
              => (ret.value[i].valid => ~parseOpenAPISpec(sources[i]).threw)


\* The sources of the batch the loop has gone through and not skipped.
NotSkipped(src) == ~(skipsEmpty /\ src = <<>>)
Processed == SelectSeq(SubSeq(sources, 1, idx - 1), NotSkipped)

\* The failure result as the specification describes it.
FailureShape(r) ==
  /\ ~r.valid
  /\ Len(r.errors) = 1
  /\ startsWith(r.errors[1].message, <<"Failed to parse specification: ">>)
  /\ r.warnings = <<>>
  /\ r.partialValidations = <<>>
  /\ r.totalDocuments = 0
  /\ r.validDocuments = 0

\* C11: in validateMultipleRecursively a source whose processing throws
\* yields, for that source only, the failure result (invalid, one error
\* "Failed to parse specification: ...", no warnings, no partials, 0 of 0
\* documents); the other sources get the result of their own document, the
\* same wherever they stand in the batch.
C11_BatchFailureResult ==
  (api = "validateMultipleRecursively" /\ pc \in {"next", "done"})
    => /\ Len(results) = Len(Processed)
       /\ \A i \in 1..Len(results) :
            IF parseOpenAPISpec(Processed[i]).threw
            THEN FailureShape(results[i])
            ELSE /\ ~FailureShape(results[i])
                 /\ results[i].spec = parseOpenAPISpec(Processed[i]).spec
                 /\ results[i].totalDocuments >= 1
       /\ \A i, j \in 1..Len(results) :
            Processed[i] = Processed[j] => results[i] = results[j]

\* C11 witness: a failed source followed by a source with partial results.
C11_Witness ==
  /\ api = "validateMultipleRecursively" /\ pc = "done"
  /\ Len(results) = 2
  /\ FailureShape(results[1])
  /\ ~FailureShape(results[2])
  /\ Len(results[2].partialValidations) >= 1


\* C12: in a single-document call (validateRecursively, validate with one
\* source) a root that cannot be loaded, parsed or given a version makes the
\* call throw: no result is returned, nothing is validated, no reference is
\* looked for or resolved.
C12_RootFailureThrows ==
  (api \in {"validateRecursively", "validate"}
     /\ source \in {SrcMissing, SrcBad, SrcV4})
    => /\ pc \in {"parse", "parseSingle", "done"}
       /\ pc = "done" => ret.kind = "throw"
       /\ ret.kind # "value"
       /\ rootParsed = NoParsed
       /\ refs = <<>> /\ resolvedRefs = <<>> /\ refIdx = 1
       /\ ajv = NoAjv

\* C12 witness: the call on a document of an unsupported version has thrown.
C12_Witness ==
  /\ api = "validate" /\ source = SrcV4 /\ options.recursive
  /\ pc = "done" /\ ret.kind = "throw"


\* C13 (as stated): resolveReference fails with an error whenever
\* context.currentDepth >= context.maxDepth, for every reference value and
\* every state of the visited set.
C13_DepthExceededAlwaysThrows ==
  (api = "resolveReference" /\ context.currentDepth >= context.maxDepth)
    => (pc = "done" /\ ret.kind = "throw")

\* C13 (amended): resolveReference fails with an error whenever
\* context.currentDepth >= context.maxDepth and the reference is not in the
\* visited set; it fails at once, leaving the visited set as it was and
\* starting no fetch. (A visited reference returns the circular marker
\* first, whatever the depth.)
C13_DepthExceededThrows ==
  (api = "resolveReference" /\ context.currentDepth >= context.maxDepth
     /\ args.ref \notin args.visited)
    => /\ pc = "done"
       /\ ret.kind = "throw"
       /\ context.visited = args.visited

\* C13 witness: a pointer that exists in the document, not visited while
\* another reference is, refused at a depth equal to the limit.
C13_Witness ==
  /\ api = "resolveReference" /\ pc = "done"
  /\ args.ref = RefSelf /\ args.visited = {RefUrl}
  /\ context.currentDepth = context.maxDepth
  /\ ret.kind = "throw"


\* C14 (as stated): when the depth budget is exceeded while validateRecursively
\* resolves the references of a document, the failure leaves
\* validateRecursively as an exception; the reference is not merely skipped.
C14_DepthExceededPropagates ==
  (api = "validateRecursively" /\ pc = "done"
     /\ rootParsed.spec.t # "undef"
     /\ Len(refs) > 0
     /\ context.currentDepth >= context.maxDepth)
    => ret.kind = "throw"


\* The ten shape rules, in the order of the specification, on the fragment
\* detectPartialType was called with.
Has(key) == Truthy(Get(args.document, key))

ShapeRules ==
  << <<"schema", Has("type") \/ Has("properties") \/ Has("items") \/ Has("allOf")
                   \/ Has("oneOf") \/ Has("anyOf")>>,
     <<"parameter", Has("name") /\ (Has("in") \/ Has("parameter"))>>,
     <<"response", Has("description")
                     /\ (Has("content") \/ Has("schema") \/ Has("headers"))>>,
     <<"pathitem", Has("get") \/ Has("post") \/ Has("put") \/ Has("delete")
                     \/ Has("patch") \/ Has("head") \/ Has("options")>>,
     <<"requestbody", Has("content") /\ ~Has("description")>>,
     <<"header", Has("schema") /\ ~Has("name")>>,
     <<"example", Has("summary") \/ Has("description")
                    \/ Get(args.document, "value") # Undefined>>,
     <<"link", Has("operationRef") \/ Has("operationId")>>,
     <<"callback", Has("expression") /\ Get(args.document, "expression").t = "str">>,
     <<"securityscheme", Has("type") /\ (Has("flows") \/ Has("openIdConnectUrl")
                                           \/ Has("scheme"))>> >>

Matching == {k \in 1..Len(ShapeRules) : ShapeRules[k][2]}

FirstMatch ==
  IF Matching = {} THEN JNull
  ELSE JStr(<<ShapeRules[CHOOSE k \in Matching : \A m \in Matching : k <= m][1]>>)

\* C15: detectPartialType tries its ten shape rules in the order schema,
\* parameter, response, pathitem, requestbody, header, example, link,
\* callback, securityscheme and returns the kind of the first that matches,
\* null when none does, whatever the version; {type: "string"} is a schema,
\* {name: "id", in: "query"} a parameter and {} gives null.
C15_FirstMatchingRule ==
  (api = "detectPartialType" /\ args.document.t \notin {"null", "undef"})
    => /\ ret.kind = "value"
       /\ ret.value = FirstMatch
       /\ args.document = FragString => ret.value = JStr(<<"schema">>)
       /\ args.document = ParamP => ret.value = JStr(<<"parameter">>)
       /\ args.document = JObj(<<>>) => ret.value = JNull

\* C15 witness: a fragment that matches the parameter rule and the schema
\* rule is a schema.
C15_Witness ==
  /\ api = "detectPartialType" /\ pc = "done"
  /\ Has("name") /\ Has("in") /\ Has("type")
  /\ ret.kind = "value" /\ ret.value = JStr(<<"schema">>)


\* C16 (as stated): for every fragment value, null included,
\* validatePartialDocument returns and does not throw; when the fragment has
\* no kind or its (version, kind) has no schema the result is invalid with
\* exactly one error and no warnings, and the evaluator is not run.
C16_PartialNeverThrows ==
  (api = "validatePartialDocument" /\ pc = "done")
    => /\ ret.kind = "value"
       /\ ajv = NoAjv
            => /\ ~ret.value.valid
               /\ Len(ret.value.errors) = 1
               /\ ret.value.warnings = <<>>

\* C17 (as stated): with a documentPath, the path of every error and every
\* warning of validatePartialDocument's result starts with that documentPath,
\* the error of an unclassifiable fragment and that of a missing fragment
\* schema included.
C17_PathsPrefixed ==
  (api = "validatePartialDocument" /\ ret.kind = "value"
     /\ args.documentPath # <<>>)
    => /\ \A k \in 1..Len(ret.value.errors) :
            startsWith(ret.value.errors[k].path, args.documentPath)
       /\ \A k \in 1..Len(ret.value.warnings) :
            startsWith(ret.value.warnings[k].path, args.documentPath)


\* The two findings of the strict structural check.
HostProblem ==
  Problem(<<"/">>, <<"Either host or servers must be specified in Swagger 2.0">>)
ServersProblem == Problem(<<"/">>, <<"No servers specified">>)

InList(problem, list) == \E k \in 1..Len(list) : list[k] = problem

NoHost(spec) == Get(spec, "host") \in {Undefined, JNull, JStr(<<>>)}
NoServers(spec) == Get(spec, "servers") \in {Undefined, JNull, JArr(<<>>)}

\* What the strict option adds to the result of validating spec as version.
StrictFindings(result, spec, version, strict) ==
  /\ InList(HostProblem, result.errors) = (strict /\ version = V20 /\ NoHost(spec))
  /\ InList(HostProblem, result.errors) => ~result.valid
  /\ InList(ServersProblem, result.warnings)
       = (strict /\ version # V20 /\ NoServers(spec))
  /\ ~InList(ServersProblem, result.errors)
  /\ ~InList(HostProblem, result.warnings)

\* C18: with the strict option the whole-document validator records an
\* error (valid = false) for a Swagger 2.0 document without host, and only a
\* warning for an OpenAPI 3.x document with no servers or an empty servers
\* list; without the option it records neither.
C18_StrictHostAndServers ==
  /\ (api = "validateOpenAPISpec" /\ ret.kind = "value")
       => StrictFindings(ret.value, args.document, args.version,
                         options.strict = "true")
  /\ (rootParsed.spec.t # "undef")
       => StrictFindings(rootValidation, rootParsed.spec, rootParsed.version,
                         validationOptions.strict = "true")

\* C18 witness: strict validation of an OpenAPI 3.0 document with an empty
\* servers list is valid and carries the warning.
C18_Witness ==
  /\ api = "validateOpenAPISpec" /\ pc = "done" /\ ret.kind = "value"
  /\ options.strict = "true"
  /\ args.document = DocE /\ args.version = V30
  /\ ret.value.valid
  /\ InList(ServersProblem, ret.value.warnings)


SecurityProblem ==
  Problem(<<"/">>, <<"Security schemes must be defined when using security">>)

\* The security-scheme definitions of a document of the given version.
SchemeDefinitions(spec, version) ==
  IF version = V20 THEN Get(spec, "securityDefinitions")
  ELSE Get(Get(spec, "components"), "securitySchemes")

\* The scheme names the security requirements of the document use.
RequiredSchemes(spec) ==
  LET security == Get(spec, "security") IN
  IF security.t # "arr" THEN {}
  ELSE UNION {{security.kv[i][2].kv[j][1] : j \in 1..Len(security.kv[i][2].kv)} :
              i \in 1..Len(security.kv)}

\* C19 (as stated): with the strict security check, a document that declares
\* a security requirement for which no matching security-scheme definition
\* exists gets an error and is invalid.
C19_SecurityConsistency ==
  (api = "validateOpenAPISpec" /\ ret.kind = "value" /\ options.strict = "true"
     /\ \E name \in RequiredSchemes(args.document) :
          ~HasKey(SchemeDefinitions(args.document, args.version), name))
    => /\ InList(SecurityProblem, ret.value.errors)
       /\ ~ret.value.valid

\* The document declares security requirements (a non-empty list).
SecurityDeclared(spec) ==
  Get(spec, "security").t = "arr" /\ Len(Get(spec, "security").kv) > 0

\* C19 (amended): under the strict option the whole-document validator
\* records the security error, and the result is invalid, exactly when the
\* document declares security requirements and has no security-scheme
\* definitions at all (securityDefinitions for 2.0, components.securitySchemes
\* for 3.x); the names in the requirements are not matched against the
\* definitions, and without the strict option nothing is recorded.
C19_SecurityDefinitionsMissing ==
  (api = "validateOpenAPISpec" /\ ret.kind = "value")
    => /\ InList(SecurityProblem, ret.value.errors)
            = (/\ options.strict = "true"
               /\ SecurityDeclared(args.document)
               /\ SchemeDefinitions(args.document, args.version)
                    \in {Undefined, JNull})
       /\ InList(SecurityProblem, ret.value.errors) => ~ret.value.valid
       /\ ~InList(SecurityProblem, ret.value.warnings)

\* C19 witness: a 2.0 document with a host and no schema violation, invalid
\* under strict only because its security has no securityDefinitions.
C19_Witness ==
  /\ api = "validateOpenAPISpec" /\ pc = "done" /\ ret.kind = "value"
  /\ options.strict = "true"
  /\ args.document = DocK /\ args.version = V20
  /\ ret.value.errors = <<SecurityProblem>>
  /\ ~ret.value.valid


\* Which reference values of the library do not resolve as a pointer into
\* which document: the pointers to nothing, the references outside the
\* document, and the pointers to a component the document does not have.
BrokenIn(spec, value) ==
  \/ value \in {RefMissing, RefUrl, RefFile, RefNoFile}
  \/ value = RefSelf /\ spec # DocA
  \/ value \in {RefParam, RefNothing} /\ spec # DocB

IsBrokenError(problem) == startsWith(problem.message, <<"Broken reference: ">>)

\* The errors the reference check owes the document: one per broken site,
\* at the site's path, in document order.
BrokenErrorsOf(spec) ==
  LET sites == findReferences(spec, <<>>)
      IsBrokenSite(site) == BrokenIn(spec, site.value)
      brokenSites == SelectSeq(sites, IsBrokenSite)
  IN [k \in 1..Len(brokenSites) |->
        Problem(brokenSites[k].path, <<"Broken reference: ">> \o brokenSites[k].value)]

ReferenceFindings(result, spec, requested) ==
  /\ SelectSeq(result.errors, IsBrokenError)
       = (IF requested THEN BrokenErrorsOf(spec) ELSE <<>>)
  /\ SelectSeq(result.warnings, IsBrokenError) = <<>>

\* C20: with the validateReferences option the whole-document validator
\* records exactly one error "Broken reference: <value>" for each $ref
\* occurrence that does not resolve as an in-document pointer and none for
\* one that does; a URL or file reference is always reported, and nothing
\* is fetched or read. Without the option no such error is recorded.
C20_BrokenReferences ==
  /\ (api = "validateOpenAPISpec")
       => /\ pc = "done" /\ context = NoContext
          /\ ret.kind = "value"
               => ReferenceFindings(ret.value, args.document,
                                    options.validateReferences)
  /\ (rootParsed.spec.t # "undef")
       => ReferenceFindings(rootValidation, rootParsed.spec,
                            validationOptions.validateReferences)

\* C20 witness: of the four references of the document, the one broken
\* pointer is reported, the pointer used twice and the pointer to a null
\* are not.
C20_Witness ==
  /\ api = "validateOpenAPISpec" /\ pc = "done" /\ ret.kind = "value"
  /\ options.validateReferences
  /\ args.document = DocB
  /\ Len(findReferences(DocB, <<>>)) = 4
  /\ SelectSeq(ret.value.errors, IsBrokenError)
       = <<Problem(<<"paths", ".", "/m", ".", "$ref">>,
                   <<"Broken reference: ">> \o RefMissing)>>

\* ---------------------------------------------------- C21: analyzeReferences

\* analyzeReferences has returned.
AnalysisReturns == api = "analyzeReferences" /\ pc = "done" /\ ret.kind = "value"

\* The $ref sites of the parsed source that hold value.
AnalysisSitesOf(value) ==
  LET sites == findReferences(parseOpenAPISpec(source).spec, <<>>)
  IN {k \in 1..Len(sites) : sites[k].value = value}

\* The reference values that occur in the parsed source.
AnalysisValues ==
  LET sites == findReferences(parseOpenAPISpec(source).spec, <<>>)
  IN {sites[k].value : k \in 1..Len(sites)}

\* How often value stands in a list of values.
Occurrences(list, value) == Cardinality({k \in 1..Len(list) : list[k] = value})

\* C21: analyzeReferences returns totalReferences = the number of $ref sites
\* of the document, and circularReferences holds exactly once every value
\* that stands at more than one site and nothing else; validateRecursively,
\* for a value that stands at two sites of its root, reports no site of it
\* circular, neither in circularReferences nor in a partial entry.
C21_AnalyzeReferences ==
  /\ AnalysisReturns
       => /\ ret.value.totalReferences
               = Cardinality(UNION {AnalysisSitesOf(value) : value \in AnalysisValues})
          /\ ret.value.totalReferences = Len(ret.value.references)
          /\ \A value \in AnalysisValues :
               Occurrences(ret.value.circularReferences, value)
                 = IF Cardinality(AnalysisSitesOf(value)) > 1 THEN 1 ELSE 0
          /\ \A k \in 1..Len(ret.value.circularReferences) :
               ret.value.circularReferences[k] \in AnalysisValues
  /\ (api = "validateRecursively" /\ pc = "done" /\ ret.kind = "value")
       => \A X \in {refs[k].value : k \in 1..Len(refs)} :
            Cardinality(SitesOf(X)) >= 2
              => /\ Occurrences(ret.value.circularReferences, X) = 0
                 /\ \A k \in EntriesOf(ret.value, X) :
                      ~ret.value.partialValidations[k].isCircular

\* analyzeReferences of b.json: four sites, the parameter reference at two of
\* them, reported once.
C21_Witness ==
  /\ AnalysisReturns
  /\ source = SrcB
  /\ ret.value.totalReferences = 4
  /\ ret.value.circularReferences = <<RefParam>>

\* validateRecursively of a.json: the self reference stands at two sites and
\* is reported at neither.
C21_WitnessRecursive ==
  /\ api = "validateRecursively" /\ pc = "done" /\ ret.kind = "value"
  /\ source = SrcA
  /\ Cardinality(SitesOf(RefSelf)) = 2
  /\ ret.value.circularReferences = <<>>

\* ------------------------------------------- C22: one resolution per site

\* validateRecursively is inside resolveAllReferences' loop, or has returned.
InResolution ==
  /\ api = "validateRecursively"
  /\ pc \in {"resolve", "fetch"} \/ (pc = "done" /\ ret.kind = "value")

\* The resolutions pushed so far are, in order, resolutions of distinct
\* sites among the first n of the root.
PushedFromSites(n) ==
  \E f \in [1..Len(resolvedRefs) -> 1..n] :
    /\ \A k \in 1..Len(resolvedRefs) : resolvedRefs[k].path = refs[f[k]].value
    /\ \A j, k \in 1..Len(resolvedRefs) : j < k => f[j] < f[k]

\* C22: validateRecursively attempts one resolution per $ref site of the root
\* document, in order, and no other: the sites are those of the parsed root,
\* the resolutions completed are those of the sites before the one in hand,
\* all sites are done when it returns, and a $ref inside content that was
\* loaded from a file or a URL is never resolved, whatever maxRefDepth is.
C22_OneResolutionPerSite ==
  InResolution
    => /\ refs = findReferences(rootParsed.spec, <<>>)
       /\ refIdx \in 1..(Len(refs) + 1)
       /\ pc = "fetch" => refIdx <= Len(refs) /\ IsUrl(refs[refIdx].value)
       /\ pc = "done" => refIdx = Len(refs) + 1
       /\ PushedFromSites(refIdx - 1)
       /\ \A k \in 1..Len(resolvedRefs) :
            LET nested == findReferences(resolvedRefs[k].content, <<>>)
            IN \A n \in 1..Len(nested) :
                 Cardinality({j \in 1..Len(resolvedRefs) :
                                resolvedRefs[j].path = nested[n].value})
                   <= Cardinality(SitesOf(nested[n].value))

\* c.json with maxRefDepth 2: the URL reference came back with a document
\* that holds a $ref of its own, and so did the file; neither was resolved.
C22_Witness ==
  /\ api = "validateRecursively" /\ pc = "done" /\ ret.kind = "value"
  /\ source = SrcC
  /\ validationOptions.maxRefDepth = 2
  /\ Len(refs) = 3
  /\ Len(resolvedRefs) = 2
  /\ resolvedRefs[1].path = RefUrl
  /\ findReferences(resolvedRefs[1].content, <<>>) # <<>>
  /\ resolvedRefs[2].path = RefFile
  /\ findReferences(resolvedRefs[2].content, <<>>) # <<>>

\* -------------------------------------- C23: visited across one resolution

\* C23: a single resolveReference call leaves context.visited as it found it
\* on every exit (a content return, a circular return, a thrown failure, the
\* depth limit), and while it is suspended on its fetch visited holds the
\* reference in addition to what it held at the start. Inside
\* resolveAllReferences the same: visited is empty between resolutions and
\* holds exactly the reference in hand during a fetch.
C23_VisitedRestored ==
  /\ (api = "resolveReference" /\ pc = "done")
       => ret.kind \in {"value", "throw"} /\ context.visited = args.visited
  /\ (api = "resolveReference" /\ pc = "fetchOne")
       => /\ args.ref \in context.visited
          /\ context.visited = args.visited \cup {args.ref}
  /\ pc = "resolve" => context.visited = {}
  /\ pc = "fetch" => context.visited = {refs[refIdx].value}

\* A direct call for the URL with another reference already visited: the
\* fetch failed, the call threw, and visited is what it was.
C23_Witness ==
  /\ api = "resolveReference" /\ pc = "done"
  /\ args.ref = RefUrl
  /\ args.visited = {RefSelf}
  /\ ret.kind = "throw"
  /\ context.visited = {RefSelf}

\* --------------------------------------------------- C24: findReferences

\* findReferences has returned.
FinderReturns == api = "findReferences" /\ pc = "done" /\ ret.kind = "value"

\* The chain of keys joined with dots.
RECURSIVE DotJoin(_)
DotJoin(chain) ==
  IF Len(chain) = 1 THEN keyString(chain[1])
  ELSE DotJoin(SubSeq(chain, 1, Len(chain) - 1)) \o <<".">>
         \o keyString(chain[Len(chain)])

\* The string-valued "$ref" keys of a tree with their chains of keys and
\* array indices, depth first, parents before children, in key order; any
\* other key that holds an object or an array is descended into.
RECURSIVE RefSites(_, _)
RefSites(v, chain) ==
  IF v.t \in {"obj", "arr"}
  THEN Flatten([k \in 1..Len(v.kv) |->
         IF v.kv[k][1] = "$ref" /\ v.kv[k][2].t = "str"
         THEN <<[chain |-> Append(chain, "$ref"), value |-> v.kv[k][2].s]>>
         ELSE RefSites(v.kv[k][2], Append(chain, v.kv[k][1]))])
  ELSE <<>>

\* What the claim expects of findReferences.
ExpectedReferences(tree) ==
  LET sites == RefSites(tree, <<>>)
  IN [k \in 1..Len(sites) |->
        [path |-> DotJoin(sites[k].chain), value |-> sites[k].value]]

\* The tree has an empty key on a chain of empty keys from the root.
EmptyRootKey(tree) == tree.t \in {"obj", "arr"} /\ HasKey(tree, "")

\* C24: findReferences returns, depth first and in key order, one entry per
\* "$ref" key that holds a string, with the dot-joined chain of keys and
\* array indices from the root down to "$ref" as its path; a "$ref" key that
\* holds an object or an array is not recorded but descended into.
C24_FindReferences ==
  FinderReturns => ret.value = ExpectedReferences(args.document)

\* The same for every tree whose root has no empty key.
C24_FindReferencesNamedKeys ==
  (FinderReturns /\ ~EmptyRootKey(args.document))
    => ret.value = ExpectedReferences(args.document)

\* The tree with arrays and object-valued $ref keys: three entries.
C24_WitnessNamedKeys ==
  /\ FinderReturns
  /\ args.document = TreeArray
  /\ ret.value = << [path |-> <<"a", ".", "0", ".", "$ref">>, value |-> RefFile],
                    [path |-> <<"a", ".", "2", ".", "b", ".", "$ref">>, value |-> RefSelf],
                    [path |-> <<"$ref", ".", "$ref">>, value |-> RefUrl] >>

\* The tree with an empty key at the root: the path lacks the leading dot.
C24_WitnessEmptyKey ==
  /\ FinderReturns
  /\ args.document = TreeEmptyKey
  /\ ret.value = << [path |-> <<"$ref">>, value |-> RefFile] >>
  /\ ExpectedReferences(TreeEmptyKey) = << [path |-> <<".", "$ref">>, value |-> RefFile] >>

\* ------------------------------------------------ C25: null content skipped

\* The resolutions that came back with a null content and are not circular.
NullResolved ==
  {k \in 1..Len(resolvedRefs) :
     ~resolvedRefs[k].isCircular /\ resolvedRefs[k].content = JNull}

\* C25: in validateRecursively a reference that resolved, is not circular,
\* and whose content is null is skipped: it has no partial entry, no error
\* and no warning carries its path, and it counts neither in totalDocuments
\* nor in validDocuments.
C25_NullContentSkipped ==
  (api = "validateRecursively" /\ pc = "done" /\ ret.kind = "value")
    => /\ \A k \in NullResolved :
            /\ EntriesOf(ret.value, resolvedRefs[k].path) = {}
            /\ \A e \in 1..Len(ret.value.errors) :
                 ~startsWith(ret.value.errors[e].path, resolvedRefs[k].path)
            /\ \A w \in 1..Len(ret.value.warnings) :
                 ~startsWith(ret.value.warnings[w].path, resolvedRefs[k].path)
       /\ Len(ret.value.partialValidations)
            = Len(resolvedRefs) - Cardinality(NullResolved)
       /\ ret.value.totalDocuments
            = 1 + Len(resolvedRefs) - Cardinality(NullResolved)
       /\ ret.value.validDocuments
            = (IF rootValidation.valid THEN 1 ELSE 0)
                + Cardinality({k \in 1..Len(ret.value.partialValidations) :
                                 ret.value.partialValidations[k].result.valid})

\* b.json: the reference to the null value resolved, and of the three
\* resolutions only the two others were counted.
C25_Witness ==
  /\ api = "validateRecursively" /\ pc = "done" /\ ret.kind = "value"
  /\ source = SrcB
  /\ Len(resolvedRefs) = 3
  /\ \E k \in NullResolved : resolvedRefs[k].path = RefNothing
  /\ ret.value.totalDocuments = 3
  /\ ret.value.validDocuments = 3

\* ------------------------------------------------- C26: sequential batch

\* C26: validateMultipleRecursively works on one source at a time, in list
\* order: whenever a step of a source is in hand, every source before it has
\* its result and no source after it has been touched, and the resolution
\* state in hand (the context with its visited set, the references, the
\* resolutions pushed) was made for that source alone.
C26_SequentialSources ==
  api = "validateMultipleRecursively"
    => /\ idx \in 1..(Len(sources) + 1)
       /\ Len(results) = Len(Processed)
       /\ pc \in {"parse", "resolve", "fetch"}
            => idx <= Len(sources) /\ source = sources[idx]
       /\ pc \in {"resolve", "fetch"}
            => /\ rootParsed = parseOpenAPISpec(source)
               /\ context.basePath = source
               /\ context.baseDocument = rootParsed.spec
               /\ context.visited \subseteq {refs[k].value : k \in refIdx..Len(refs)}
               /\ refs = findReferences(rootParsed.spec, <<>>)
               /\ PushedFromSites(refIdx - 1)
       /\ pc = "done" => idx = Len(sources) + 1 /\ ret = Returned(results)

\* The second source of a batch at its first reference: the first source has
\* its result with its partial entries, and nothing of it is in the
\* resolution state.
C26_Witness ==
  /\ api = "validateMultipleRecursively"
  /\ sources = <<SrcA, SrcS>>
  /\ idx = 2 /\ pc = "resolve" /\ refIdx = 1
  /\ Len(results) = 1
  /\ Len(results[1].partialValidations) = 2
  /\ context.baseDocument = DocS
  /\ context.visited = {}
  /\ resolvedRefs = <<>>

\* ------------------------------------------ C27: no circular resolution

SecuritySchemeRule(doc) ==
  /\ Truthy(Get(doc, "type"))
  /\ Truthy(Get(doc, "flows")) \/ Truthy(Get(doc, "openIdConnectUrl"))
       \/ Truthy(Get(doc, "scheme"))

\* C28: detectPartialType never returns securityscheme: a fragment that
\* satisfies the security scheme rule (type with flows, openIdConnectUrl or
\* scheme) satisfies the schema rule, which is tried first, so it is a schema
\* and validatePartialDocument evaluates it against the schema fragment's
\* schema of its version.
C28_SecuritySchemeUnreachable ==
  /\ (api = "detectPartialType" /\ pc = "done" /\ ret.kind = "value")
       => /\ ret.value # JStr(<<"securityscheme">>)
          /\ SecuritySchemeRule(args.document) => ret.value = JStr(<<"schema">>)
  /\ (api = "validatePartialDocument" /\ pc = "done"
        /\ SecuritySchemeRule(args.document))
       => /\ ret.kind = "value"
          /\ \A r \in DOMAIN ajv :
               r.schema = partialSchemaKey(args.version, "schema")
          /\ partialSchemaKey(args.version, "schema") \notin partialSchemas
               => DOMAIN ajv = {}

\* A bearer scheme fragment is classified as a schema.
C28_Witness ==
  /\ api = "detectPartialType" /\ pc = "done"
  /\ SecuritySchemeRule(args.document)
  /\ Get(args.document, "scheme") # Undefined
  /\ ret.kind = "value" /\ ret.value = JStr(<<"schema">>)

\* The same fragment in validatePartialDocument: evaluated as a schema.
C28_WitnessValidated ==
  /\ api = "validatePartialDocument" /\ pc = "done"
  /\ SecuritySchemeRule(args.document)
  /\ DOMAIN ajv = {Request(partialSchemaKey(V30, "schema"), args.document)}

\* ------------------------------------------- C29: truthiness, not presence

\* The values the claim lists: the empty string, 0, false and null.
Falsy(v) ==
  \/ v = JStr(<<>>)
  \/ v = JNum("0")
  \/ v = [t |-> "bool", s |-> <<"false">>, kv |-> <<>>]
  \/ v = JNull

\* The fragment without the keys that hold such a value, except value.
WithoutFalsy(doc) ==
  LET Kept(entry) == entry[1] = "value" \/ ~Falsy(entry[2])
  IN IF doc.t = "obj" THEN JObj(SelectSeq(doc.kv, Kept)) ELSE doc

\* key is present in the fragment once those keys are left out.
Present(key) == HasKey(WithoutFalsy(args.document), key)

\* The ten rules read on presence.
PresenceRules ==
  << <<"schema", Present("type") \/ Present("properties") \/ Present("items")
                   \/ Present("allOf") \/ Present("oneOf") \/ Present("anyOf")>>,
     <<"parameter", Present("name") /\ (Present("in") \/ Present("parameter"))>>,
     <<"response", Present("description")
                     /\ (Present("content") \/ Present("schema") \/ Present("headers"))>>,
     <<"pathitem", Present("get") \/ Present("post") \/ Present("put")
                     \/ Present("delete") \/ Present("patch") \/ Present("head")
                     \/ Present("options")>>,
     <<"requestbody", Present("content") /\ ~Present("description")>>,
     <<"header", Present("schema") /\ ~Present("name")>>,
     <<"example", Present("summary") \/ Present("description") \/ Present("value")>>,
     <<"link", Present("operationRef") \/ Present("operationId")>>,
     <<"callback", Present("expression")
                     /\ Get(args.document, "expression").t = "str">>,
     <<"securityscheme", Present("type") /\ (Present("flows")
                           \/ Present("openIdConnectUrl") \/ Present("scheme"))>> >>

PresenceMatching == {k \in 1..Len(PresenceRules) : PresenceRules[k][2]}

FirstPresenceMatch ==
  IF PresenceMatching = {} THEN JNull
  ELSE JStr(<<PresenceRules[CHOOSE k \in PresenceMatching :
                              \A m \in PresenceMatching : k <= m][1]>>)

\* C29: detectPartialType reads its rules on truthiness: the kind it returns
\* for a fragment is the kind the rules give, read on presence, once every
\* key that holds "", 0, false or null is left out of the fragment, except
\* the key value, which counts in the example rule whatever it holds.
C29_Truthiness ==
  (api = "detectPartialType" /\ pc = "done" /\ ret.kind = "value")
    => /\ ret.value = FirstPresenceMatch
       /\ \A key \in {"summary", "description", "value"} :
            (DOMAIN args.document.kv = {1} /\ HasKey(args.document, key)
               /\ Falsy(Get(args.document, key)))
              => ret.value = IF key = "value" THEN JStr(<<"example">>) ELSE JNull

\* A fragment with an empty description and a content is a request body,
\* not a response.
C29_Witness ==
  /\ api = "detectPartialType" /\ pc = "done"
  /\ Get(args.document, "description") = JStr(<<>>)
  /\ HasKey(args.document, "content")
  /\ ret = Returned(JStr(<<"requestbody">>))

\* A fragment whose only key is value: null is an example.
C29_WitnessValue ==
  /\ api = "detectPartialType" /\ pc = "done"
  /\ args.document = JObj(<< <<"value", JNull>> >>)
  /\ ret = Returned(JStr(<<"example">>))

\* ------------------------------------------------ C30: the strict setting

\* validate has returned the result of one source.
SingleReturns == api = "validate" /\ pc = "done" /\ ret.kind = "value"

\* The strict setting the claim expects validateSingle to run with.
ExpectedStrict ==
  IF options.strict \in {"true", "false"} THEN options.strict = "true"
  ELSE config.strictMode = "true"

\* C30 (as stated): validateSingle runs strictly exactly when options.strict
\* is true or, options.strict being undefined (the key missing, or present
\* with the value undefined), config.strictMode is true.
C30_StrictFallback ==
  SingleReturns => (validationOptions.strict = "true") = ExpectedStrict

\* The same for options that carry no strict key or a boolean one.
C30_StrictFallbackNoUndefinedKey ==
  (SingleReturns /\ options.strict # "undefined")
    => (validationOptions.strict = "true") = ExpectedStrict

\* A strict instance called without a strict key: the Swagger document
\* without host gets the strict error.
C30_WitnessAbsentKey ==
  /\ SingleReturns
  /\ config.strictMode = "true" /\ options.strict = "absent"
  /\ source = SrcC /\ ~options.recursive
  /\ InList(HostProblem, ret.value.errors)

\* A strict instance called with strict: undefined: the same document is
\* not validated strictly.
C30_WitnessUndefinedKey ==
  /\ SingleReturns
  /\ config.strictMode = "true" /\ options.strict = "undefined"
  /\ source = SrcC /\ ~options.recursive
  /\ validationOptions.strict = "undefined"
  /\ ~InList(HostProblem, ret.value.errors)

====
